---- MODULE Spec2Model ----
\* PhantomGaze: the multi-buffer raymarching pipeline (ScreenBuffer, the
\* geometry / contour / volume kernels, compositing) as a state machine.
\*
\* Floating-point values are modelled as extended rationals <<n, d>> in lowest
\* terms with d >= 0: d = 0 encodes +inf (<<1,0>>), -inf (<<-1,0>>) and NaN
\* (<<0,0>>), so that division by zero and comparisons against cp.inf behave as
\* in IEEE arithmetic.  Square roots are exact where the radicand is a perfect
\* square and rounded down to a whole number otherwise.
\*
\* Each kernel launch starts one thread per pixel; the model follows the
\* threads of the pixels in Pixels, one loop iteration per step, interleaved.
\* A local variable of the source that is read more than once is bound as an
\* operator parameter or by \E over a one-element set.
EXTENDS Integers, Sequences, FiniteSets, TLC

\* ------------------------------------------------------------------ bounds

\* number of render-pass invocations followed on one ScreenBuffer
MaxPasses == 2

\* ------------------------------------------------------- float arithmetic

Abs(x) == IF x < 0 THEN -x ELSE x
Sgn(x) == IF x > 0 THEN 1 ELSE IF x < 0 THEN -1 ELSE 0

RECURSIVE GCD(_, _)
GCD(a, b) == IF b = 0 THEN a ELSE GCD(b, a % b)

Reduce(n, d, g) == <<n \div g, d \div g>>

\* the float n/d, normalised
Rat(n, d) ==
    IF d = 0 THEN <<Sgn(n), 0>> ELSE Reduce(n * Sgn(d), Abs(d), GCD(Abs(n), Abs(d)))

R(n) == <<n, 1>>
Zero == R(0)
One == R(1)
Half == <<1, 2>>
Inf == <<1, 0>>
NaN == <<0, 0>>

IsNaN(a) == a = NaN
IsFinite(a) == a[2] # 0

AddOver(a, b, g) ==
    Rat(a[1] * (b[2] \div g) + b[1] * (a[2] \div g), (a[2] \div g) * b[2])
FAdd(a, b) ==
    IF a[2] = 0 \/ b[2] = 0 THEN <<Sgn(a[1] * b[2] + b[1] * a[2]), 0>>
    ELSE AddOver(a, b, GCD(a[2], b[2]))
FNeg(a) == <<-a[1], a[2]>>
FSub(a, b) == FAdd(a, FNeg(b))

MulOver(a, b, g1, g2) ==
    <<(a[1] \div g1) * (b[1] \div g2), (a[2] \div g2) * (b[2] \div g1)>>
FMul(a, b) ==
    IF a[2] = 0 \/ b[2] = 0 THEN <<Sgn(a[1]) * Sgn(b[1]), 0>>
    ELSE MulOver(a, b, GCD(Abs(a[1]), b[2]), GCD(Abs(b[1]), a[2]))
Recip(b) == IF b[1] < 0 THEN <<-b[2], -b[1]>> ELSE <<b[2], b[1]>>
FDiv(a, b) == FMul(a, Recip(b))
FAbs(a) == <<Abs(a[1]), a[2]>>

\* comparisons; every comparison with NaN is false
LtOver(a, b, g) == a[1] * (b[2] \div g) < b[1] * (a[2] \div g)
FLt(a, b) ==
    IF a[2] = 0 /\ b[2] = 0 THEN a[1] # 0 /\ b[1] # 0 /\ a[1] < b[1]
    ELSE IF a[2] = 0 \/ b[2] = 0 THEN a[1] * b[2] < b[1] * a[2]
    ELSE LtOver(a, b, GCD(a[2], b[2]))
FGt(a, b) == FLt(b, a)
FLe(a, b) == FLt(a, b) \/ (a = b /\ a # NaN)
FGe(a, b) == FLe(b, a)
FMin(a, b) == IF FLt(b, a) THEN b ELSE a
FMax(a, b) == IF FGt(b, a) THEN b ELSE a

\* int(): truncation toward zero of a finite float
Trunc(a) == Sgn(a[1]) * (Abs(a[1]) \div a[2])

RECURSIVE SqrtSearch(_, _, _)
SqrtProbe(n, lo, hi, mid) ==
    IF mid * mid <= n THEN SqrtSearch(n, mid, hi) ELSE SqrtSearch(n, lo, mid - 1)
SqrtSearch(n, lo, hi) ==
    IF lo >= hi THEN lo ELSE SqrtProbe(n, lo, hi, (lo + hi + 1) \div 2)
ISqrt(n) == SqrtSearch(n, 0, IF n < 46340 THEN n ELSE 46340)

\* x ** 0.5
SqrtOver(a, rn, rd) ==
    IF rn * rn = a[1] /\ rd * rd = a[2] THEN <<rn, rd>> ELSE R(ISqrt(a[1] \div a[2]))
Sqrt(a) == IF a[2] = 0 THEN a ELSE SqrtOver(a, ISqrt(a[1]), ISqrt(a[2]))

\* ----------------------------------------------------------- vector math

Vec(x, y, z) == <<R(x), R(y), R(z)>>
VAdd(u, v) == <<FAdd(u[1], v[1]), FAdd(u[2], v[2]), FAdd(u[3], v[3])>>
VSub(u, v) == <<FSub(u[1], v[1]), FSub(u[2], v[2]), FSub(u[3], v[3])>>
VScale(s, v) == <<FMul(s, v[1]), FMul(s, v[2]), FMul(s, v[3])>>
VDiv(v, s) == <<FDiv(v[1], s), FDiv(v[2], s), FDiv(v[3], s)>>

dot(u, v) == FAdd(FAdd(FMul(u[1], v[1]), FMul(u[2], v[2])), FMul(u[3], v[3]))
length(v) == Sqrt(dot(v, v))
normalize(v) == VDiv(v, length(v))
cross(u, v) ==
    <<FSub(FMul(u[2], v[3]), FMul(u[3], v[2])),
      FSub(FMul(u[3], v[1]), FMul(u[1], v[3])),
      FSub(FMul(u[1], v[2]), FMul(u[2], v[1]))>>

\* ----------------------------------------------------------------- camera

\* Camera(position=(0,0,4), focal_point=(0,0,0), view_up=(0,1,0), height=6,
\*        width=16, max_depth=4.0) with the default background
camera ==
    [position |-> Vec(0, 0, 4), focal_point |-> Vec(0, 0, 0), view_up |-> Vec(0, 1, 0),
     height |-> 6, width |-> 16, max_depth |-> R(4),
     background |-> <<Rat(2, 5), Rat(2, 5), Rat(11, 20)>>]

\* the pixels <<y, x>> whose threads the model follows: the pixel on the
\* optical axis and the leftmost pixel of the same row
Pixels == {<<3, 8>>, <<3, 0>>}

\* calculate_ray_direction, from the point on the image plane onwards
RayThrough(x, y, img_shape, camera_position, forward, right, up) ==
    normalize(VSub(
        VAdd(VAdd(camera_position, forward),
             VAdd(VScale(FMul(FDiv(FSub(R(x), Rat(img_shape[2], 2)), R(img_shape[2])),
                              Rat(img_shape[2], img_shape[1])),
                         right),
                  VScale(FDiv(FSub(R(y), Rat(img_shape[1], 2)), R(img_shape[1])), up))),
        camera_position))

\* calculate_ray_direction, from the right vector onwards
RayFromRight(x, y, img_shape, camera_position, forward, right) ==
    RayThrough(x, y, img_shape, camera_position, forward, right, cross(right, forward))

\* calculate_ray_direction, from the forward vector onwards
RayFromForward(x, y, img_shape, camera_position, forward, camera_up) ==
    RayFromRight(x, y, img_shape, camera_position, forward,
                 normalize(cross(forward, camera_up)))

calculate_ray_direction(x, y, img_shape, camera_position, camera_focal, camera_up) ==
    RayFromForward(x, y, img_shape, camera_position,
                   normalize(VSub(camera_focal, camera_position)), camera_up)

\* the ray of the thread of pixel px
PixelRay(px) ==
    calculate_ray_direction(px[2], px[1], <<camera.height, camera.width>>,
                            camera.position, camera.focal_point, camera.view_up)

\* ------------------------------------------------------------- colorings

\* Python's None; an optional argument is None or the one-element tuple of its value
None == <<>>

\* SolidColor(color, opacity): a one-entry table; opaque exactly when opacity == 1.0
SolidColor(color, opacity) ==
    [vmin |-> Zero, vmax |-> One,
     color_map_array |-> << <<color[1], color[2], color[3], opacity>> >>,
     nan_color |-> color, nan_opacity |-> One,
     opaque |-> (opacity = One)]

Magenta == <<One, Zero, One>>
Green == <<Zero, One, Zero>>
White == <<One, One, One>>

\* the colorings handed to geometry()
SolidColors == {SolidColor(Magenta, One), SolidColor(Green, Half)}

\* Colormap(name, vmin, vmax, num_table_values=2, opacity): the two-entry table
\* of the palette (dark blue, dark red); opacity None leaves the palette's
\* alpha 1, a float below 1 or an array overwrites the alpha column
Palette == << <<Zero, Zero, Half, One>>, <<Half, Zero, Zero, One>> >>

Colormap(vmin, vmax, opacity) ==
    [vmin |-> vmin, vmax |-> vmax,
     color_map_array |->
        IF opacity = None \/ opacity = <<One>> THEN Palette
        ELSE IF Len(opacity) = 1
        THEN [n \in 1..Len(Palette) |-> [Palette[n] EXCEPT ![4] = opacity[1]]]
        ELSE [n \in 1..Len(Palette) |-> [Palette[n] EXCEPT ![4] = opacity[n]]],
     nan_color |-> <<One, One, Zero>>, nan_opacity |-> One,
     opaque |-> (opacity = None \/ opacity = <<One>>)]

\* the colormaps handed to contour() and volume(): opaque, opacity=0.5 and the
\* opacity ramp linspace(0, 1, 2)
Colormaps ==
    {Colormap(Zero, One, None), Colormap(Zero, One, <<Half>>),
     Colormap(Zero, One, <<Zero, One>>)}

\* the colormap argument of contour() and volume(): None or one of Colormaps
OptionalColormaps == {None} \cup {<<c>> : c \in Colormaps}

\* the clamp with its limits exchanged
ScaledFromBelow(value, color_map_array, vmin, vmax) ==
    FMul(FDiv(FSub(FMin(FMax(value, vmax), vmin), vmin), FSub(vmax, vmin)),
         R(Len(color_map_array) - 1))

\* scalar_to_color: the value scaled to the table
ScaledValue(value, color_map_array, vmin, vmax) ==
    FMul(FDiv(FSub(FMin(FMax(value, vmin), vmax), vmin), FSub(vmax, vmin)),
         R(Len(color_map_array) - 1))

\* scalar_to_color: the table index int(scaled).  The conversion of NaN (vmin ==
\* vmax) to an integer is undefined: the build fixes its result, from_nan, which
\* is -1 as long as no such conversion has been made
TableIndices(scaled, color_map_array, from_nan) ==
    IF IsFinite(scaled) THEN {Trunc(scaled)}
    ELSE IF from_nan = -1 THEN 0..(Len(color_map_array) - 1)
    ELSE {from_nan}

ColorIndices(value, color_map_array, vmin, vmax, from_nan) ==
    TableIndices(ScaledValue(value, color_map_array, vmin, vmax), color_map_array, from_nan)

\* whether scalar_to_color converts NaN to an integer for this value
ConvertsNaN(value, color_map_array, vmin, vmax) ==
    ~IsFinite(ScaledValue(value, color_map_array, vmin, vmax))

scalar_to_color(index, color_map_array) == color_map_array[index + 1]

\* ------------------------------------------------------------- geometries

\* Geometry(sdf, lower_bound, upper_bound, distance_threshold) whose sdf is the
\* sphere's: a node is the record of what its closure captures
Geometry(radius, center, distance_threshold) ==
    [radius |-> radius, center |-> center, distance_threshold |-> distance_threshold]

\* Sphere.sdf
sdf(g, pos) == FSub(length(VSub(pos, g.center)), g.radius)

\* finite-difference step of Geometry.sdf_derivative
GradStep == Rat(1, 1000)

\* Geometry.sdf_derivative
sdf_derivative(g, pos) ==
    <<FSub(sdf(g, VAdd(pos, <<GradStep, Zero, Zero>>)),
           sdf(g, VSub(pos, <<GradStep, Zero, Zero>>))),
      FSub(sdf(g, VAdd(pos, <<Zero, GradStep, Zero>>)),
           sdf(g, VSub(pos, <<Zero, GradStep, Zero>>))),
      FSub(sdf(g, VAdd(pos, <<Zero, Zero, GradStep>>)),
           sdf(g, VSub(pos, <<Zero, Zero, GradStep>>)))>>

\* the geometries handed to geometry(): spheres centred on the optical axis of
\* radius 1 and 2 with the surface threshold 1, of radius 1 with the degenerate
\* threshold 0, and of radius 1 with a threshold wider than the sphere
Geometries ==
    {Geometry(One, Vec(0, 0, 0), One),
     Geometry(R(2), Vec(0, 0, 0), One),
     Geometry(One, Vec(0, 0, 0), Zero),
     Geometry(One, Vec(0, 0, 0), R(2))}

\* ----------------------------------------------------------- grid sampler

\* Volume(array, spacing, origin); shape is array.shape
Volume(array, shape, spacing, origin) ==
    [array |-> array, shape |-> shape, spacing |-> spacing, origin |-> origin]

IMin(a, b) == IF b < a THEN b ELSE a
IMax(a, b) == IF b > a THEN b ELSE a

_safe_index_array(array, shape, i, j, k) ==
    array[<<IF i < 0 \/ i >= shape[1] THEN IMin(IMax(i, 0), shape[1] - 1) ELSE i,
            IF j < 0 \/ j >= shape[2] THEN IMin(IMax(j, 0), shape[2] - 1) ELSE j,
            IF k < 0 \/ k >= shape[3] THEN IMin(IMax(k, 0), shape[3] - 1) ELSE k>>]

\* the interpolation with the weights of the two ends of each axis exchanged
TrilinearSwapped(v_000, v_100, v_010, v_110, v_001, v_101, v_011, v_111, dx, dy, dz) ==
    LET v_00 == FAdd(FMul(v_000, dx), FMul(v_100, FSub(One, dx)))
        v_10 == FAdd(FMul(v_010, dx), FMul(v_110, FSub(One, dx)))
        v_01 == FAdd(FMul(v_001, dx), FMul(v_101, FSub(One, dx)))
        v_11 == FAdd(FMul(v_011, dx), FMul(v_111, FSub(One, dx)))
        v_0 == FAdd(FMul(v_00, dy), FMul(v_10, FSub(One, dy)))
        v_1 == FAdd(FMul(v_01, dy), FMul(v_11, FSub(One, dy)))
    IN  FAdd(FMul(v_0, dz), FMul(v_1, FSub(One, dz)))

_trilinear_interpolation(v_000, v_100, v_010, v_110, v_001, v_101, v_011, v_111, dx, dy, dz) ==
    LET v_00 == FAdd(FMul(v_000, FSub(One, dx)), FMul(v_100, dx))
        v_10 == FAdd(FMul(v_010, FSub(One, dx)), FMul(v_110, dx))
        v_01 == FAdd(FMul(v_001, FSub(One, dx)), FMul(v_101, dx))
        v_11 == FAdd(FMul(v_011, FSub(One, dx)), FMul(v_111, dx))
        v_0 == FAdd(FMul(v_00, FSub(One, dy)), FMul(v_10, dy))
        v_1 == FAdd(FMul(v_01, FSub(One, dy)), FMul(v_11, dy))
    IN  FAdd(FMul(v_0, FSub(One, dz)), FMul(v_1, dz))

\* the position in units of the grid spacing, per axis
GridCoordinate(spacing, origin, position) ==
    <<FDiv(FSub(position[1], origin[1]), spacing[1]),
      FDiv(FSub(position[2], origin[2]), spacing[2]),
      FDiv(FSub(position[3], origin[3]), spacing[3])>>

\* sample_array, from the indices of the lower cell corner onwards
SampleCell(array, shape, f, i, j, k) ==
    _trilinear_interpolation(
        _safe_index_array(array, shape, i, j, k),
        _safe_index_array(array, shape, i + 1, j, k),
        _safe_index_array(array, shape, i, j + 1, k),
        _safe_index_array(array, shape, i + 1, j + 1, k),
        _safe_index_array(array, shape, i, j, k + 1),
        _safe_index_array(array, shape, i + 1, j, k + 1),
        _safe_index_array(array, shape, i, j + 1, k + 1),
        _safe_index_array(array, shape, i + 1, j + 1, k + 1),
        FSub(f[1], R(i)), FSub(f[2], R(j)), FSub(f[3], R(k)))

SampleAt(array, shape, f) ==
    SampleCell(array, shape, f, Trunc(f[1]), Trunc(f[2]), Trunc(f[3]))

sample_array(array, shape, spacing, origin, position) ==
    SampleAt(array, shape, GridCoordinate(spacing, origin, position))

\* array[i, j, k] without a bounds check: a negative index counts from the end
\* of its axis; an index that is outside the array after that reads memory that
\* is not the array's, whose content is stray
Wrap(n, i) == IF i < 0 THEN i + n ELSE i
Within(shape, idx) ==
    \A axis \in 1..3 : Wrap(shape[axis], idx[axis]) \in 0..(shape[axis] - 1)
Load(array, shape, i, j, k, stray) ==
    IF Within(shape, <<i, j, k>>)
    THEN array[<<Wrap(shape[1], i), Wrap(shape[2], j), Wrap(shape[3], k)>>]
    ELSE stray

\* what the memory beside an array may hold
Stray == {Zero, R(7)}

\* sample_array_derivative: the six elements it reads, in the order dx, dy, dz,
\* minuend first
DerivativeIndices(shape, i, j, k) ==
    <<IF i <= 0 THEN <<1, j, k>> ELSE IF i >= shape[1] - 1 THEN <<i + 1, j, k>> ELSE <<i, j, k>>,
      IF i <= 0 THEN <<0, j, k>> ELSE <<i - 1, j, k>>,
      IF j <= 0 THEN <<i, 1, k>> ELSE IF j >= shape[2] - 1 THEN <<i, j + 1, k>> ELSE <<i, j, k>>,
      IF j <= 0 THEN <<i, 0, k>> ELSE <<i, j - 1, k>>,
      IF k <= 0 THEN <<i, j, 1>> ELSE IF k >= shape[3] - 1 THEN <<i, j, k + 1>> ELSE <<i, j, k>>,
      IF k <= 0 THEN <<i, j, 0>> ELSE <<i, j, k - 1>>>>

\* the contents the six reads may meet: one content per read that leaves the array
Strays(shape, indices) ==
    {stray \in [1..6 -> Stray] :
        \A n \in 1..6 : Within(shape, indices[n]) => stray[n] = Zero}

\* the gradient with a central difference that is not halved
DerivativeUnhalved(array, shape, spacing, i, j, k, stray) ==
    <<FDiv(FSub(Load(array, shape, i + 1, j, k, stray[1]),
                Load(array, shape, i - 1, j, k, stray[2])), spacing[1]),
      FDiv(FSub(Load(array, shape, i, j + 1, k, stray[3]),
                Load(array, shape, i, j - 1, k, stray[4])), spacing[2]),
      FDiv(FSub(Load(array, shape, i, j, k + 1, stray[5]),
                Load(array, shape, i, j, k - 1, stray[6])), spacing[3])>>

\* sample_array_derivative, from the cell indices onwards: the three branches
\* per axis as written in the source; the indices are not clamped
DerivativeCell(array, shape, spacing, i, j, k, stray) ==
    <<IF i <= 0
      THEN FDiv(FSub(Load(array, shape, 1, j, k, stray[1]),
                     Load(array, shape, 0, j, k, stray[2])), spacing[1])
      ELSE IF i >= shape[1] - 1
      THEN FDiv(FSub(Load(array, shape, i + 1, j, k, stray[1]),
                     Load(array, shape, i - 1, j, k, stray[2])), FMul(R(2), spacing[1]))
      ELSE FDiv(FSub(Load(array, shape, i, j, k, stray[1]),
                     Load(array, shape, i - 1, j, k, stray[2])), spacing[1]),
      IF j <= 0
      THEN FDiv(FSub(Load(array, shape, i, 1, k, stray[3]),
                     Load(array, shape, i, 0, k, stray[4])), spacing[2])
      ELSE IF j >= shape[2] - 1
      THEN FDiv(FSub(Load(array, shape, i, j + 1, k, stray[3]),
                     Load(array, shape, i, j - 1, k, stray[4])), FMul(R(2), spacing[2]))
      ELSE FDiv(FSub(Load(array, shape, i, j, k, stray[3]),
                     Load(array, shape, i, j - 1, k, stray[4])), spacing[2]),
      IF k <= 0
      THEN FDiv(FSub(Load(array, shape, i, j, 1, stray[5]),
                     Load(array, shape, i, j, 0, stray[6])), spacing[3])
      ELSE IF k >= shape[3] - 1
      THEN FDiv(FSub(Load(array, shape, i, j, k + 1, stray[5]),
                     Load(array, shape, i, j, k - 1, stray[6])), FMul(R(2), spacing[3]))
      ELSE FDiv(FSub(Load(array, shape, i, j, k, stray[5]),
                     Load(array, shape, i, j, k - 1, stray[6])), spacing[3])>>

DerivativeAt(array, shape, spacing, f, stray) ==
    DerivativeCell(array, shape, spacing, Trunc(f[1]), Trunc(f[2]), Trunc(f[3]), stray)

sample_array_derivative(array, shape, spacing, origin, position, stray) ==
    DerivativeAt(array, shape, spacing, GridCoordinate(spacing, origin, position), stray)

\* the elements sample_array_derivative reads at position
DerivativeReads(shape, spacing, origin, position) ==
    DerivativeIndices(shape, Trunc(GridCoordinate(spacing, origin, position)[1]),
                      Trunc(GridCoordinate(spacing, origin, position)[2]),
                      Trunc(GridCoordinate(spacing, origin, position)[3]))

\* ray_intersect_box: <<t0, t1>>
ray_intersect_box(box_origin, box_upper, ray_origin, ray_direction) ==
    LET tmin_x == FDiv(FSub(box_origin[1], ray_origin[1]), ray_direction[1])
        tmax_x == FDiv(FSub(box_upper[1], ray_origin[1]), ray_direction[1])
        tmin_y == FDiv(FSub(box_origin[2], ray_origin[2]), ray_direction[2])
        tmax_y == FDiv(FSub(box_upper[2], ray_origin[2]), ray_direction[2])
        tmin_z == FDiv(FSub(box_origin[3], ray_origin[3]), ray_direction[3])
        tmax_z == FDiv(FSub(box_upper[3], ray_origin[3]), ray_direction[3])
        tmmin_x == FMin(tmin_x, tmax_x)
        tmmax_x == FMax(tmin_x, tmax_x)
        tmmin_y == FMin(tmin_y, tmax_y)
        tmmax_y == FMax(tmin_y, tmax_y)
        tmmin_z == FMin(tmin_z, tmax_z)
        tmmax_z == FMax(tmin_z, tmax_z)
        t0 == FMax(Zero, FMax(tmmin_x, FMax(tmmin_y, tmmin_z)))
        t1 == FMin(tmmax_x, FMin(tmmax_y, tmmax_z))
    IN  <<t0, t1>>

\* a field that depends on the k index only
Layered(shape, profile) ==
    [idx \in (0..(shape[1] - 1)) \X (0..(shape[2] - 1)) \X (0..(shape[3] - 1)) |->
        R(profile[idx[3] + 1])]

\* the volumes handed to contour() and volume(): the all-zero field, a field
\* that changes sign twice along the optical axis, and a constant field on a
\* grid of spacing 2; the optical axis runs through all of them, the ray of the
\* leftmost pixel passes beside them
Volumes ==
    {Volume(Layered(<<3, 3, 3>>, <<0, 0, 0>>), <<3, 3, 3>>, Vec(1, 1, 1), Vec(-1, -1, -1)),
     Volume(Layered(<<3, 3, 3>>, <<1, -1, 1>>), <<3, 3, 3>>, Vec(1, 1, 1), Vec(-1, -1, -1)),
     Volume(Layered(<<1, 1, 2>>, <<1, 1>>), <<1, 1, 2>>, Vec(2, 2, 2), Vec(-1, -1, -2))}

\* the contour thresholds
Thresholds == {Zero}

\* ---------------------------------------------------------------- state

VARIABLES
    opaque_pixel_buffer,        \* ScreenBuffer: pixel -> rgb
    depth_buffer,               \* ScreenBuffer: pixel -> float, +inf where nothing opaque was hit
    normal_buffer,              \* ScreenBuffer: pixel -> vec3
    transparent_pixel_buffer,   \* ScreenBuffer: pixel -> rgb
    revealage_buffer,           \* ScreenBuffer: pixel -> float
    background_buffer,          \* ScreenBuffer: pixel -> rgb
    image_buffer,               \* ScreenBuffer: <<row, column>> -> rgba
    kernel,                     \* the kernel launched last and its arguments
    thread,                     \* pixel -> the local variables of that pixel's thread
    int_of_nan,                 \* what the build makes of int(NaN); -1 until it has been evaluated
    passes,                     \* render passes invoked so far
    _geometry_render_kernels,   \* the compiled geometry kernels, by (sdf, sdf_derivative, opaque)
    order,                      \* the kernels launched on the first of two ScreenBuffers
    todo,                       \* the kernels still to launch on the second ScreenBuffer
    memo,                       \* the transparent buffers the first ScreenBuffer ended with
    fragments,                  \* ghost: pixel -> distances of the transparent fragments accumulated
    depth_writes,               \* ghost: pixel -> number of depth writes since the buffers were reset
    scheduled,                  \* ghost: pixel -> parity of the loop iterations its running thread has made
    objects,                    \* the Geometry objects constructed so far, by identity
    call,                       \* the device-function call made last on its own, with its outcome
    op                          \* ghost: the operation performed last

buffers ==
    <<opaque_pixel_buffer, depth_buffer, normal_buffer, transparent_pixel_buffer,
      revealage_buffer, background_buffer>>
ghosts == <<fragments, depth_writes>>
pair == <<order, todo, memo>>
host == <<objects, call>>
vars ==
    <<opaque_pixel_buffer, depth_buffer, normal_buffer, transparent_pixel_buffer,
      revealage_buffer, background_buffer, image_buffer, kernel, thread, int_of_nan,
      passes, _geometry_render_kernels, order, todo, memo, fragments, depth_writes,
      scheduled, objects, call, op>>

Black == <<Zero, Zero, Zero>>

\* the image row in which _combine_buffers_kernel stores pixel row y
FlipY(y) == camera.height - y - 1

\* the image entries followed: in the columns of Pixels, the rows of Pixels and
\* the rows they are flipped to
ImageEntries ==
    {<<px[1], px[2]>> : px \in Pixels} \cup {<<FlipY(px[1]), px[2]>> : px \in Pixels}

\* a thread that has returned
Returned ==
    [pc |-> "done", ray_direction |-> Black, ray_pos |-> Black,
     distance_traveled |-> Zero, distance |-> Zero, value |-> Zero, sign |-> 0,
     step |-> 0, steps |-> 0]

NoCall == [name |-> "none"]

NoKernel == [name |-> "none", geometry |-> 0, volume |-> 0, threshold |-> Zero, color |-> 0]

Idle == \A px \in Pixels : thread[px].pc = "done"

\* ScreenBuffer.__init__: the six buffers and the image buffer as allocated
Allocated ==
    /\ opaque_pixel_buffer = [px \in Pixels |-> Black]
    /\ depth_buffer = [px \in Pixels |-> Inf]
    /\ normal_buffer = [px \in Pixels |-> Black]
    /\ transparent_pixel_buffer = [px \in Pixels |-> Black]
    /\ revealage_buffer = [px \in Pixels |-> One]
    /\ image_buffer = [e \in ImageEntries |-> <<Zero, Zero, Zero, Zero>>]

\* ScreenBuffer.from_camera: __init__ followed by the fill of the background
FromCamera ==
    /\ Allocated
    /\ background_buffer = [px \in Pixels |-> camera.background]
    /\ kernel = NoKernel
    /\ thread = [px \in Pixels |-> Returned]
    /\ int_of_nan = -1
    /\ passes = 0
    /\ order = <<>>
    /\ todo = <<>>
    /\ memo = <<>>
    /\ fragments = [px \in Pixels |-> {}]
    /\ depth_writes = [px \in Pixels |-> 0]
    /\ scheduled = [px \in Pixels |-> 0]
    /\ op = "from_camera"

Init ==
    /\ FromCamera
    /\ _geometry_render_kernels = <<>>
    /\ objects = <<>>
    /\ call = NoCall

\* the thread of px has made one more loop iteration
Iterated(px) ==
    scheduled' = [scheduled EXCEPT ![px] = IF thread'[px].pc = "done" THEN 0 ELSE 1 - @]

\* a thread returns without a write
Return(px) ==
    /\ thread' = [thread EXCEPT ![px] = Returned]
    /\ UNCHANGED <<opaque_pixel_buffer, depth_buffer, normal_buffer,
                   transparent_pixel_buffer, revealage_buffer, fragments, depth_writes>>

\* a thread goes on to th without a write
Continue(px, th) ==
    /\ thread' = [thread EXCEPT ![px] = th]
    /\ UNCHANGED <<opaque_pixel_buffer, depth_buffer, normal_buffer,
                   transparent_pixel_buffer, revealage_buffer, fragments, depth_writes>>

\* ------------------------------------------------------- geometry pass

\* weight of a transparent fragment (Weighted Blended OIT)
OITWeightOf(normalized_distance) ==
    FDiv(One, FAdd(FMul(normalized_distance, normalized_distance), One))
OITWeight(distance, max_depth) == OITWeightOf(FDiv(distance, max_depth))

\* a key made of the sdf alone
KernelKeyOfSdf(g, color) == <<[radius |-> g.radius, center |-> g.center], TRUE>>

\* the key under which geometry() looks its kernel up: the sdf of the object
\* (with the derivative made of it) and the opaque flag of the coloring
KernelKey(g, color) == <<[radius |-> g.radius, center |-> g.center], color.opaque>>

\* kernel_constructor_render_geometry: the kernel stored under the key, or a
\* new render_kernel that closes over sdf, sdf_derivative and opaque
kernel_constructor_render_geometry(key, kernels) ==
    IF key \in DOMAIN kernels THEN kernels[key]
    ELSE [sdf |-> key[1], opaque |-> key[2]]

\* the launch of render_kernel: the kernel runs the sdf and the opaque flag it
\* closed over, with the distance threshold and the color table handed to it.
\* invoked and cached (ghosts) are the arguments of geometry() and whether the
\* kernel came out of the store
Launched(render_kernel, g, color, cached) ==
    [name |-> "geometry",
     geometry |-> Geometry(render_kernel.sdf.radius, render_kernel.sdf.center,
                           g.distance_threshold),
     volume |-> 0, threshold |-> Zero,
     color |-> [color EXCEPT !.opaque = render_kernel.opaque],
     invoked |-> [geometry |-> g, color |-> color],
     cached |-> cached]

\* geometry(): launches render_kernel; each thread starts at the camera
LaunchGeometry(g, color) ==
    /\ Idle
    /\ \E render_kernel \in {kernel_constructor_render_geometry(
                                  KernelKey(g, color), _geometry_render_kernels)} :
          /\ kernel' = Launched(render_kernel, g, color,
                                KernelKey(g, color) \in DOMAIN _geometry_render_kernels)
          /\ _geometry_render_kernels' =
                (KernelKey(g, color) :> render_kernel) @@ _geometry_render_kernels
    /\ thread' = [px \in Pixels |->
                    [Returned EXCEPT !.pc = "march",
                                     !.ray_direction = PixelRay(px),
                                     !.ray_pos = camera.position]]
    /\ passes' = passes + 1
    /\ op' = "geometry"
    /\ UNCHANGED <<buffers, image_buffer, int_of_nan, ghosts, scheduled>>

\* the test with the far plane in the place of the stored depth
GeometryBeyondFarPlane(distance_traveled, depth) ==
    FGt(distance_traveled, camera.max_depth)

\* render_kernel: the test against the depth stored for the pixel
GeometryBehind(distance_traveled, depth) == FGt(distance_traveled, depth)

\* the hit that stores the length of the last step as the depth
GeometryHitStep(px, th, color, opacity, distance_traveled, gradient, intensity, weight) ==
    IF kernel.color.opaque
    THEN /\ opaque_pixel_buffer' = [opaque_pixel_buffer EXCEPT ![px] =
                <<FMul(color[1], intensity), FMul(color[2], intensity),
                  FMul(color[3], intensity)>>]
         /\ depth_buffer' = [depth_buffer EXCEPT ![px] = th.distance]
         /\ normal_buffer' = [normal_buffer EXCEPT ![px] = gradient]
         /\ depth_writes' = [depth_writes EXCEPT ![px] = @ + 1]
         /\ thread' = [thread EXCEPT ![px] = Returned]
         /\ UNCHANGED <<transparent_pixel_buffer, revealage_buffer, fragments>>
    ELSE /\ transparent_pixel_buffer' = [transparent_pixel_buffer EXCEPT ![px] =
                <<FAdd(@[1], FMul(FMul(FMul(color[1], weight), opacity), intensity)),
                  FAdd(@[2], FMul(FMul(FMul(color[2], weight), opacity), intensity)),
                  FAdd(@[3], FMul(FMul(FMul(color[3], weight), opacity), intensity))>>]
         /\ revealage_buffer' = [revealage_buffer EXCEPT ![px] =
                FMul(@, FSub(One, FMul(opacity, weight)))]
         /\ fragments' = [fragments EXCEPT ![px] = @ \cup {distance_traveled}]
         /\ thread' = [thread EXCEPT ![px] = [th EXCEPT !.pc = "pass_through"]]
         /\ UNCHANGED <<opaque_pixel_buffer, depth_buffer, normal_buffer, depth_writes>>

\* the hit that writes the depth and the revealage of the whole row
GeometryHitRow(px, th, color, opacity, distance_traveled, gradient, intensity, weight) ==
    IF kernel.color.opaque
    THEN /\ opaque_pixel_buffer' = [opaque_pixel_buffer EXCEPT ![px] =
                <<FMul(color[1], intensity), FMul(color[2], intensity),
                  FMul(color[3], intensity)>>]
         /\ depth_buffer' = [p \in Pixels |-> distance_traveled]
         /\ normal_buffer' = [normal_buffer EXCEPT ![px] = gradient]
         /\ depth_writes' = [depth_writes EXCEPT ![px] = @ + 1]
         /\ thread' = [thread EXCEPT ![px] = Returned]
         /\ UNCHANGED <<transparent_pixel_buffer, revealage_buffer, fragments>>
    ELSE /\ transparent_pixel_buffer' = [transparent_pixel_buffer EXCEPT ![px] =
                <<FAdd(@[1], FMul(FMul(FMul(color[1], weight), opacity), intensity)),
                  FAdd(@[2], FMul(FMul(FMul(color[2], weight), opacity), intensity)),
                  FAdd(@[3], FMul(FMul(FMul(color[3], weight), opacity), intensity))>>]
         /\ revealage_buffer' = [p \in Pixels |->
                FMul(revealage_buffer[p], FSub(One, FMul(opacity, weight)))]
         /\ fragments' = [fragments EXCEPT ![px] = @ \cup {distance_traveled}]
         /\ thread' = [thread EXCEPT ![px] = [th EXCEPT !.pc = "pass_through"]]
         /\ UNCHANGED <<opaque_pixel_buffer, depth_buffer, normal_buffer, depth_writes>>

\* render_kernel: the hit of a surface, at ray_pos after distance_traveled
GeometryHit(px, th, color, opacity, distance_traveled, gradient, intensity, weight) ==
    IF kernel.color.opaque
    THEN /\ opaque_pixel_buffer' = [opaque_pixel_buffer EXCEPT ![px] =
                <<FMul(color[1], intensity), FMul(color[2], intensity),
                  FMul(color[3], intensity)>>]
         /\ depth_buffer' = [depth_buffer EXCEPT ![px] = distance_traveled]
         /\ normal_buffer' = [normal_buffer EXCEPT ![px] = gradient]
         /\ depth_writes' = [depth_writes EXCEPT ![px] = @ + 1]
         /\ thread' = [thread EXCEPT ![px] = Returned]
         /\ UNCHANGED <<transparent_pixel_buffer, revealage_buffer, fragments>>
    ELSE /\ transparent_pixel_buffer' = [transparent_pixel_buffer EXCEPT ![px] =
                <<FAdd(@[1], FMul(FMul(FMul(color[1], weight), opacity), intensity)),
                  FAdd(@[2], FMul(FMul(FMul(color[2], weight), opacity), intensity)),
                  FAdd(@[3], FMul(FMul(FMul(color[3], weight), opacity), intensity))>>]
         /\ revealage_buffer' = [revealage_buffer EXCEPT ![px] =
                FMul(@, FSub(One, FMul(opacity, weight)))]
         /\ fragments' = [fragments EXCEPT ![px] = @ \cup {distance_traveled}]
         /\ thread' = [thread EXCEPT ![px] = [th EXCEPT !.pc = "pass_through"]]
         /\ UNCHANGED <<opaque_pixel_buffer, depth_buffer, normal_buffer, depth_writes>>

\* render_kernel: one iteration of the ray-march loop, from the update of the
\* ray position onwards
GeometryAdvance(px, g, moved, ray_direction, distance_traveled, gradient) ==
    IF ~FLt(FAbs(moved.distance), g.distance_threshold)
    THEN Continue(px, moved)
    ELSE GeometryHit(px, moved,
                     kernel.color.color_map_array[1], kernel.color.color_map_array[1][4],
                     distance_traveled, gradient, FAbs(dot(gradient, ray_direction)),
                     OITWeight(distance_traveled, camera.max_depth))

\* render_kernel: one iteration of the ray-march loop, after the distance to
\* the object has been taken
GeometryStep(px, th, g, distance, distance_traveled, ray_pos) ==
    IF GeometryBehind(distance_traveled, depth_buffer[px])
    THEN Return(px)
    ELSE GeometryAdvance(px, g,
                         [th EXCEPT !.distance = distance,
                                    !.distance_traveled = distance_traveled,
                                    !.ray_pos = ray_pos],
                         th.ray_direction, distance_traveled,
                         normalize(sdf_derivative(g, ray_pos)))

GeometryMove(px, th, g, distance) ==
    GeometryStep(px, th, g, distance, FAdd(th.distance_traveled, distance),
                 VAdd(th.ray_pos, VScale(distance, th.ray_direction)))

\* render_kernel: one iteration of the ray-march loop of the thread of px
GeometryMarch(px) ==
    /\ kernel.name = "geometry"
    /\ thread[px].pc = "march"
    /\ op' = "geometry"
    /\ UNCHANGED <<background_buffer, image_buffer, kernel, int_of_nan, passes,
                   _geometry_render_kernels>>
    /\ IF ~FLt(thread[px].distance_traveled, camera.max_depth)
       THEN Return(px)
       ELSE GeometryMove(px, thread[px], kernel.geometry,
                         FAbs(sdf(kernel.geometry, thread[px].ray_pos)))
    /\ Iterated(px)

\* render_kernel: the step through a transparent surface
GeometryThrough(px, th, g, ray_pos, distance) ==
    thread' = [thread EXCEPT ![px] =
        [th EXCEPT !.ray_pos = ray_pos,
                   !.distance_traveled = FAdd(th.distance_traveled, g.distance_threshold),
                   !.distance = distance,
                   !.pc = IF FLt(distance, g.distance_threshold)
                          THEN "pass_through" ELSE "march"]]

\* render_kernel: one iteration of the loop that steps through a transparent
\* surface in steps of distance_threshold
GeometryPassThrough(px) ==
    /\ kernel.name = "geometry"
    /\ thread[px].pc = "pass_through"
    /\ \E ray_pos \in {VAdd(thread[px].ray_pos,
                            VScale(kernel.geometry.distance_threshold,
                                   thread[px].ray_direction))} :
            GeometryThrough(px, thread[px], kernel.geometry, ray_pos,
                            FAbs(sdf(kernel.geometry, ray_pos)))
    /\ Iterated(px)
    /\ op' = "geometry"
    /\ UNCHANGED <<buffers, image_buffer, kernel, int_of_nan, passes, ghosts,
                   _geometry_render_kernels>>

\* --------------------------------------------------------- contour pass

\* the step size of contour_kernel and volume_kernel
StepSize(volume) == FMin(volume.spacing[1], FMin(volume.spacing[2], volume.spacing[3]))

\* the upper corner of the box of the grid
VolumeUpper(volume) ==
    <<FAdd(volume.origin[1], FMul(volume.spacing[1], R(volume.shape[1]))),
      FAdd(volume.origin[2], FMul(volume.spacing[2], R(volume.shape[2]))),
      FAdd(volume.origin[3], FMul(volume.spacing[3], R(volume.shape[3])))>>

\* where the march starts: the ray position at t0, the distance t0 and the
\* number of loop iterations
GridStart(ray_direction, t0, steps) ==
    IF steps <= 0 THEN Returned
    ELSE [Returned EXCEPT !.pc = "march",
                          !.ray_direction = ray_direction,
                          !.ray_pos = VAdd(camera.position, VScale(t0, ray_direction)),
                          !.distance = t0,
                          !.steps = steps]

GridEntry(volume, ray_direction, t) ==
    IF FGt(t[1], t[2]) THEN Returned
    ELSE GridStart(ray_direction, t[1], Trunc(FDiv(FSub(t[2], t[1]), StepSize(volume))))

GridRay(volume, ray_direction) ==
    GridEntry(volume, ray_direction,
              ray_intersect_box(volume.origin, VolumeUpper(volume), camera.position,
                                ray_direction))

\* the prologue shared by contour_kernel and volume_kernel: ray, box
\* intersection, start position and the number of loop iterations
GridThread(px, volume) == GridRay(volume, PixelRay(px))

\* contour_kernel: the value at the start of the ray and the side of the
\* threshold it lies on
ContourStart(th, value, threshold) ==
    IF th.pc = "done" THEN th
    ELSE [th EXCEPT !.value = value, !.sign = IF FGt(value, threshold) THEN 1 ELSE -1]

ContourThread(volume, threshold, th) ==
    ContourStart(th, sample_array(volume.array, volume.shape, volume.spacing,
                                  volume.origin, th.ray_pos),
                 threshold)

\* contour(volume, camera, threshold, color=None, colormap): launches
\* contour_kernel; without a colormap the contour is SolidColor white
LaunchContour(volume, threshold, colormap) ==
    /\ Idle
    /\ kernel' = [name |-> "contour", geometry |-> 0, volume |-> volume,
                  threshold |-> threshold,
                  color |-> IF colormap = None THEN SolidColor(White, One)
                            ELSE colormap[1]]
    /\ thread' = [px \in Pixels |-> ContourThread(volume, threshold, GridThread(px, volume))]
    /\ passes' = passes + 1
    /\ UNCHANGED _geometry_render_kernels
    /\ op' = "contour"
    /\ UNCHANGED <<buffers, image_buffer, int_of_nan, ghosts, scheduled>>

\* contour_kernel: the test against the depth stored for the pixel
ContourBehind(distance, depth) == FGt(distance, depth)

\* the end of a loop iteration that keeps the side the march started on
ContourNextUnflipped(th, volume, next_ray_pos, next_value, sign) ==
    IF th.step + 1 >= th.steps THEN Returned
    ELSE [th EXCEPT !.value = next_value,
                    !.ray_pos = next_ray_pos,
                    !.distance = FAdd(th.distance, StepSize(volume)),
                    !.step = th.step + 1]

\* contour_kernel: the end of a loop iteration
ContourNext(th, volume, next_ray_pos, next_value, sign) ==
    IF th.step + 1 >= th.steps THEN Returned
    ELSE [th EXCEPT !.value = next_value,
                    !.ray_pos = next_ray_pos,
                    !.distance = FAdd(th.distance, StepSize(volume)),
                    !.step = th.step + 1,
                    !.sign = sign]

\* the write at a crossing that stores the normal for a transparent coloring too
ContourWriteNormal(px, th, next, color, gradient, intensity, weight) ==
    /\ normal_buffer' = [normal_buffer EXCEPT ![px] = gradient]
    /\ IF kernel.color.opaque
       THEN /\ opaque_pixel_buffer' = [opaque_pixel_buffer EXCEPT ![px] =
                   <<FMul(color[1], intensity), FMul(color[2], intensity),
                     FMul(color[3], intensity)>>]
            /\ depth_buffer' = [depth_buffer EXCEPT ![px] = th.distance]
            /\ depth_writes' = [depth_writes EXCEPT ![px] = @ + 1]
            /\ thread' = [thread EXCEPT ![px] = Returned]
            /\ UNCHANGED <<transparent_pixel_buffer, revealage_buffer, fragments>>
       ELSE /\ transparent_pixel_buffer' = [transparent_pixel_buffer EXCEPT ![px] =
                   <<FAdd(@[1], FMul(FMul(FMul(color[1], weight), color[4]), intensity)),
                     FAdd(@[2], FMul(FMul(FMul(color[2], weight), color[4]), intensity)),
                     FAdd(@[3], FMul(FMul(FMul(color[3], weight), color[4]), intensity))>>]
            /\ revealage_buffer' = [revealage_buffer EXCEPT ![px] =
                   FMul(@, FSub(One, FMul(color[4], weight)))]
            /\ fragments' = [fragments EXCEPT ![px] =
                   IF color[4] = Zero THEN @ ELSE @ \cup {th.distance}]
            /\ thread' = [thread EXCEPT ![px] = next]
            /\ UNCHANGED <<opaque_pixel_buffer, depth_buffer, depth_writes>>

\* contour_kernel: the write at a crossing; next is the thread after the iteration
ContourWrite(px, th, next, color, gradient, intensity, weight) ==
    IF kernel.color.opaque
    THEN /\ opaque_pixel_buffer' = [opaque_pixel_buffer EXCEPT ![px] =
                <<FMul(color[1], intensity), FMul(color[2], intensity),
                  FMul(color[3], intensity)>>]
         /\ depth_buffer' = [depth_buffer EXCEPT ![px] = th.distance]
         /\ normal_buffer' = [normal_buffer EXCEPT ![px] = gradient]
         /\ depth_writes' = [depth_writes EXCEPT ![px] = @ + 1]
         /\ thread' = [thread EXCEPT ![px] = Returned]
         /\ UNCHANGED <<transparent_pixel_buffer, revealage_buffer, fragments>>
    ELSE /\ transparent_pixel_buffer' = [transparent_pixel_buffer EXCEPT ![px] =
                <<FAdd(@[1], FMul(FMul(FMul(color[1], weight), color[4]), intensity)),
                  FAdd(@[2], FMul(FMul(FMul(color[2], weight), color[4]), intensity)),
                  FAdd(@[3], FMul(FMul(FMul(color[3], weight), color[4]), intensity))>>]
         /\ revealage_buffer' = [revealage_buffer EXCEPT ![px] =
                FMul(@, FSub(One, FMul(color[4], weight)))]
         /\ fragments' = [fragments EXCEPT ![px] =
                IF color[4] = Zero THEN @ ELSE @ \cup {th.distance}]
         /\ thread' = [thread EXCEPT ![px] = next]
         /\ UNCHANGED <<opaque_pixel_buffer, depth_buffer, normal_buffer, depth_writes>>

\* contour_kernel: the color of a crossing; color is None, so color_array is
\* cp.zeros(volume.shape) and scalar its sample.  The test color[0] == cp.nan
\* of the source is never true
ContourShade(px, th, next, cmap, gradient, scalar) ==
    \E index \in ColorIndices(scalar, cmap.color_map_array, cmap.vmin, cmap.vmax, int_of_nan) :
        /\ ContourWrite(px, th, next, scalar_to_color(index, cmap.color_map_array),
                        gradient, FAbs(dot(gradient, th.ray_direction)),
                        OITWeight(th.distance, camera.max_depth))
        /\ int_of_nan' = IF ConvertsNaN(scalar, cmap.color_map_array, cmap.vmin, cmap.vmax)
                         THEN index ELSE int_of_nan

\* contour_kernel: a crossing at pos_contour
ContourCross(px, th, next, volume, pos_contour) ==
    \E stray \in Strays(volume.shape,
                        DerivativeReads(volume.shape, volume.spacing, volume.origin,
                                        pos_contour)) :
        ContourShade(px, th, next, kernel.color,
                     normalize(sample_array_derivative(volume.array, volume.shape,
                                                       volume.spacing, volume.origin,
                                                       pos_contour, stray)),
                     sample_array([idx \in DOMAIN volume.array |-> Zero], volume.shape,
                                  volume.spacing, volume.origin, pos_contour))

\* contour_kernel: one loop iteration, after the value at the next position
\* has been sampled
ContourProbe(px, th, volume, next_ray_pos, next_value) ==
    IF ~FLt(FMul(FSub(next_value, kernel.threshold), R(th.sign)), Zero)
    THEN /\ Continue(px, ContourNext(th, volume, next_ray_pos, next_value, th.sign))
         /\ UNCHANGED int_of_nan
    ELSE ContourCross(px, th,
                      ContourNext(th, volume, next_ray_pos, next_value, -th.sign), volume,
                      VAdd(th.ray_pos,
                           VScale(FMul(FDiv(FSub(kernel.threshold, th.value),
                                            FSub(next_value, th.value)),
                                       StepSize(volume)),
                                  th.ray_direction)))

\* contour_kernel: one iteration of the marching loop of the thread of px
ContourMarch(px) ==
    /\ kernel.name = "contour"
    /\ thread[px].pc = "march"
    /\ op' = "contour"
    /\ UNCHANGED <<background_buffer, image_buffer, kernel, passes,
                   _geometry_render_kernels>>
    /\ IF ContourBehind(thread[px].distance, depth_buffer[px])
       THEN Return(px) /\ UNCHANGED int_of_nan
       ELSE \E next_ray_pos \in {VAdd(thread[px].ray_pos,
                                      VScale(StepSize(kernel.volume),
                                             thread[px].ray_direction))} :
                ContourProbe(px, thread[px], kernel.volume, next_ray_pos,
                             sample_array(kernel.volume.array, kernel.volume.shape,
                                          kernel.volume.spacing, kernel.volume.origin,
                                          next_ray_pos))
    /\ Iterated(px)

\* ---------------------------------------------------------- volume pass

\* array.min() and array.max()
ArrayMin(array) == CHOOSE v \in {array[i] : i \in DOMAIN array} :
                        \A w \in {array[i] : i \in DOMAIN array} : FLe(v, w)
ArrayMax(array) == CHOOSE v \in {array[i] : i \in DOMAIN array} :
                        \A w \in {array[i] : i \in DOMAIN array} : FLe(w, v)

\* volume(volume, camera, colormap): launches volume_kernel; without a colormap
\* it is Colormap('jet', array.min(), array.max())
LaunchVolume(volume, colormap) ==
    /\ Idle
    /\ kernel' = [name |-> "volume", geometry |-> 0, volume |-> volume,
                  threshold |-> Zero,
                  color |-> IF colormap = None
                            THEN Colormap(ArrayMin(volume.array), ArrayMax(volume.array), None)
                            ELSE colormap[1]]
    /\ thread' = [px \in Pixels |-> GridThread(px, volume)]
    /\ passes' = passes + 1
    /\ UNCHANGED _geometry_render_kernels
    /\ op' = "volume"
    /\ UNCHANGED <<buffers, image_buffer, int_of_nan, ghosts, scheduled>>

\* the test with an early exit once the pixel is nearly covered
VolumeCovered(px, distance) ==
    FGt(distance, depth_buffer[px]) \/ FLt(revealage_buffer[px], Rat(1, 100))

\* volume_kernel: the test that breaks out of the marching loop
VolumeBehind(px, distance) == FGt(distance, depth_buffer[px])

\* the factor without the opacity of the sampled color
VolumeUnweighted(color, weight, step_size) == FSub(One, FMul(weight, step_size))

\* volume_kernel: the factor by which a step multiplies the revealage
VolumeTransmittance(color, weight, step_size) ==
    FSub(One, FMul(FMul(color[4], weight), step_size))

\* volume_kernel: the end of a loop iteration
VolumeNext(th, step_size) ==
    IF th.step + 1 >= th.steps THEN Returned
    ELSE [th EXCEPT !.ray_pos = VAdd(th.ray_pos, VScale(step_size, th.ray_direction)),
                    !.distance = FAdd(th.distance, step_size),
                    !.step = th.step + 1]

\* volume_kernel: the accumulation of one step
VolumeAccumulate(px, th, color, weight, step_size) ==
    /\ transparent_pixel_buffer' = [transparent_pixel_buffer EXCEPT ![px] =
           <<FAdd(@[1], FMul(FMul(FMul(color[1], weight), color[4]), step_size)),
             FAdd(@[2], FMul(FMul(FMul(color[2], weight), color[4]), step_size)),
             FAdd(@[3], FMul(FMul(FMul(color[3], weight), color[4]), step_size))>>]
    /\ revealage_buffer' = [revealage_buffer EXCEPT ![px] =
           FMul(@, VolumeTransmittance(color, weight, step_size))]
    /\ fragments' = [fragments EXCEPT ![px] =
           IF color[4] = Zero THEN @ ELSE @ \cup {th.distance}]
    /\ thread' = [thread EXCEPT ![px] = VolumeNext(th, step_size)]
    /\ UNCHANGED depth_writes

\* volume_kernel: one loop iteration, after the value has been sampled
VolumeSample(px, th, cmap, value, step_size) ==
    \E index \in ColorIndices(value, cmap.color_map_array, cmap.vmin, cmap.vmax, int_of_nan) :
        /\ VolumeAccumulate(px, th, scalar_to_color(index, cmap.color_map_array),
                            OITWeight(th.distance, camera.max_depth), step_size)
        /\ int_of_nan' = IF ConvertsNaN(value, cmap.color_map_array, cmap.vmin, cmap.vmax)
                         THEN index ELSE int_of_nan

\* volume_kernel: one iteration of the marching loop of the thread of px
VolumeMarch(px) ==
    /\ kernel.name = "volume"
    /\ thread[px].pc = "march"
    /\ op' = "volume"
    /\ UNCHANGED <<opaque_pixel_buffer, depth_buffer, normal_buffer, background_buffer,
                   image_buffer, kernel, passes, _geometry_render_kernels>>
    /\ IF VolumeBehind(px, thread[px].distance)
       THEN /\ thread' = [thread EXCEPT ![px] = Returned]
            /\ UNCHANGED <<transparent_pixel_buffer, revealage_buffer, int_of_nan, ghosts>>
       ELSE VolumeSample(px, thread[px], kernel.color,
                         sample_array(kernel.volume.array, kernel.volume.shape,
                                      kernel.volume.spacing, kernel.volume.origin,
                                      thread[px].ray_pos),
                         StepSize(kernel.volume))
    /\ Iterated(px)

\* ------------------------------------------------------- ScreenBuffer

\* the image entry without the flip of the rows
CombineUnflipped(px) == <<px[1], px[2]>>

\* _combine_buffers_kernel: the image entry written for pixel px
CombineTarget(px) == <<FlipY(px[1]), px[2]>>

\* _combine_buffers_kernel: the color composited for pixel px
Composite(final_color, alpha, transparent_color) ==
    <<FAdd(FMul(final_color[1], FSub(One, alpha)), FMul(transparent_color[1], alpha)),
      FAdd(FMul(final_color[2], FSub(One, alpha)), FMul(transparent_color[2], alpha)),
      FAdd(FMul(final_color[3], FSub(One, alpha)), FMul(transparent_color[3], alpha)),
      One>>

\* the color added to what the image buffer holds
CombineOnto(px) ==
    [i \in 1..4 |->
        FAdd(image_buffer[CombineTarget(px)][i],
             Composite(IF depth_buffer[px] # Inf THEN opaque_pixel_buffer[px]
                       ELSE background_buffer[px],
                       FSub(One, revealage_buffer[px]), transparent_pixel_buffer[px])[i])]

\* _combine_buffers_kernel: the color written for pixel px
Combine(px) ==
    Composite(IF depth_buffer[px] # Inf THEN opaque_pixel_buffer[px]
              ELSE background_buffer[px],
              FSub(One, revealage_buffer[px]), transparent_pixel_buffer[px])

\* ScreenBuffer.image: runs _combine_buffers_kernel over every pixel and returns
\* image_buffer; the entries that pixels outside Pixels write keep their value
Image ==
    /\ Idle
    /\ image_buffer' = [e \in ImageEntries |->
            IF \E px \in Pixels : CombineTarget(px) = e
            THEN Combine(CHOOSE px \in Pixels : CombineTarget(px) = e)
            ELSE image_buffer[e]]
    /\ op' = "image"
    /\ UNCHANGED <<buffers, kernel, thread, int_of_nan, passes, ghosts, scheduled,
                   _geometry_render_kernels>>

\* ScreenBuffer.clear
Clear ==
    /\ Idle
    /\ opaque_pixel_buffer' = [px \in Pixels |-> Black]
    /\ depth_buffer' = [px \in Pixels |-> Inf]
    /\ normal_buffer' = [px \in Pixels |-> Black]
    /\ transparent_pixel_buffer' = [px \in Pixels |-> Black]
    /\ revealage_buffer' = [px \in Pixels |-> One]
    /\ background_buffer' = [px \in Pixels |-> Black]
    /\ image_buffer' = [e \in ImageEntries |-> <<Zero, Zero, Zero, Zero>>]
    /\ fragments' = [px \in Pixels |-> {}]
    /\ depth_writes' = [px \in Pixels |-> 0]
    /\ op' = "clear"
    /\ UNCHANGED <<kernel, thread, int_of_nan, passes, scheduled,
                   _geometry_render_kernels>>

\* --------------------------------------------------------- specification

\* any sequence of at most MaxPasses passes on one ScreenBuffer, with image and
\* clear() between them
Next ==
    \/ /\ passes < MaxPasses
       /\ \E g \in Geometries, color \in SolidColors : LaunchGeometry(g, color)
       /\ UNCHANGED <<pair, host>>
    \/ /\ passes < MaxPasses
       /\ \E volume \in Volumes, threshold \in Thresholds, colormap \in OptionalColormaps :
            LaunchContour(volume, threshold, colormap)
       /\ UNCHANGED <<pair, host>>
    \/ /\ passes < MaxPasses
       /\ \E volume \in Volumes, colormap \in OptionalColormaps :
            LaunchVolume(volume, colormap)
       /\ UNCHANGED <<pair, host>>
    \/ \E px \in Pixels : GeometryMarch(px) /\ UNCHANGED <<pair, host>>
    \/ \E px \in Pixels : GeometryPassThrough(px) /\ UNCHANGED <<pair, host>>
    \/ \E px \in Pixels : ContourMarch(px) /\ UNCHANGED <<pair, host>>
    \/ \E px \in Pixels : VolumeMarch(px) /\ UNCHANGED <<pair, host>>
    \/ Image /\ UNCHANGED <<pair, host>>
    \/ Clear /\ UNCHANGED <<pair, host>>

Spec == Init /\ [][Next]_vars

\* a thread that has not returned makes its next loop iteration
Scheduled(px) ==
    /\ thread[px].pc # "done"
    /\ scheduled' = [scheduled EXCEPT ![px] = 1 - @]

\* every launched thread keeps being scheduled until it returns
FairSpec == Spec /\ \A px \in Pixels : WF_scheduled(Scheduled(px))

\* ----------------------------------------- two orders of two passes

\* the kernel launched last is recorded for the second ScreenBuffer
Record == order' = Append(order, kernel') /\ UNCHANGED <<todo, memo>>

\* launches of passes that accumulate into the transparent buffers; the
\* geometries are the spheres with the surface threshold 1
TransparentGeometry ==
    /\ \E g \in Geometries, color \in SolidColors :
         ~color.opaque /\ g.distance_threshold = One /\ LaunchGeometry(g, color)
    /\ Record
TransparentContour ==
    /\ \E volume \in Volumes, threshold \in Thresholds, c \in Colormaps :
         ~c.opaque /\ LaunchContour(volume, threshold, <<c>>)
    /\ Record
TransparentVolume ==
    /\ \E volume \in Volumes, colormap \in OptionalColormaps : LaunchVolume(volume, colormap)
    /\ Record

\* the opaque passes that may come first and fix the depth buffer
OpaqueGeometry ==
    /\ \E g \in Geometries, color \in SolidColors :
         color.opaque /\ g.distance_threshold = One /\ LaunchGeometry(g, color)
    /\ Record

\* the same pass as the one recorded as k
Relaunch(k) ==
    IF k.name = "geometry" THEN LaunchGeometry(k.geometry, k.color)
    ELSE IF k.name = "contour" THEN LaunchContour(k.volume, k.threshold, <<k.color>>)
    ELSE LaunchVolume(k.volume, <<k.color>>)

\* the passes of the first ScreenBuffer with the last two exchanged
Exchanged(s) ==
    [i \in 1..Len(s) |-> IF i = Len(s) THEN s[Len(s) - 1]
                         ELSE IF i = Len(s) - 1 THEN s[Len(s)] ELSE s[i]]

\* the number of transparent passes recorded
Transparent(s) == Cardinality({i \in 1..Len(s) : ~s[i].color.opaque \/ s[i].name = "volume"})

\* a second ScreenBuffer.from_camera(camera), after the first has taken its
\* two transparent passes
SecondBuffer ==
    /\ Idle
    /\ memo = <<>>
    /\ Transparent(order) = 2
    /\ memo' = <<transparent_pixel_buffer, revealage_buffer>>
    /\ todo' = Exchanged(order)
    /\ opaque_pixel_buffer' = [px \in Pixels |-> Black]
    /\ depth_buffer' = [px \in Pixels |-> Inf]
    /\ normal_buffer' = [px \in Pixels |-> Black]
    /\ transparent_pixel_buffer' = [px \in Pixels |-> Black]
    /\ revealage_buffer' = [px \in Pixels |-> One]
    /\ background_buffer' = [px \in Pixels |-> camera.background]
    /\ image_buffer' = [e \in ImageEntries |-> <<Zero, Zero, Zero, Zero>>]
    /\ fragments' = [px \in Pixels |-> {}]
    /\ depth_writes' = [px \in Pixels |-> 0]
    /\ op' = "from_camera"
    /\ UNCHANGED <<kernel, thread, int_of_nan, passes, order, scheduled,
                   _geometry_render_kernels>>

\* the next pass on the second ScreenBuffer
Replay ==
    /\ todo # <<>>
    /\ Relaunch(Head(todo))
    /\ todo' = Tail(todo)
    /\ UNCHANGED <<order, memo>>

\* an optional opaque pass and two transparent passes P, Q on one ScreenBuffer,
\* then the opaque pass, Q and P on a second one
CommuteNext ==
    \/ order = <<>> /\ OpaqueGeometry /\ UNCHANGED host
    \/ memo = <<>> /\ Transparent(order) < 2 /\ TransparentGeometry /\ UNCHANGED host
    \/ memo = <<>> /\ Transparent(order) < 2 /\ TransparentContour /\ UNCHANGED host
    \/ memo = <<>> /\ Transparent(order) < 2 /\ TransparentVolume /\ UNCHANGED host
    \/ SecondBuffer /\ UNCHANGED host
    \/ Replay /\ UNCHANGED host
    \/ \E px \in Pixels : GeometryMarch(px) /\ UNCHANGED <<pair, host>>
    \/ \E px \in Pixels : GeometryPassThrough(px) /\ UNCHANGED <<pair, host>>
    \/ \E px \in Pixels : ContourMarch(px) /\ UNCHANGED <<pair, host>>
    \/ \E px \in Pixels : VolumeMarch(px) /\ UNCHANGED <<pair, host>>

CommuteSpec == Init /\ [][CommuteNext]_vars

\* ------------------------------------------- the grid sampler on its own

\* everything a device-function call or the construction of a Geometry leaves alone
render ==
    <<buffers, image_buffer, kernel, thread, int_of_nan, passes, _geometry_render_kernels,
      pair, ghosts, scheduled, op>>

\* the array of the linear field coef[1]*x + coef[2]*y + coef[3]*z at the nodes
LinearField(shape, spacing, origin, coef) ==
    [idx \in (0..(shape[1] - 1)) \X (0..(shape[2] - 1)) \X (0..(shape[3] - 1)) |->
        dot(coef, VAdd(origin, <<FMul(R(idx[1]), spacing[1]), FMul(R(idx[2]), spacing[2]),
                                 FMul(R(idx[3]), spacing[3])>>))]

LinearVolume(shape, spacing, origin, coef) ==
    Volume(LinearField(shape, spacing, origin, coef), shape, spacing, origin)

\* the linear field x - 2y + 3z/2 on a grid of unequal spacings
LinearCoef == <<One, R(-2), Rat(3, 2)>>
LinearGrid == LinearVolume(<<3, 3, 3>>, <<One, R(2), Half>>, <<R(-1), Zero, Half>>, LinearCoef)

\* the grids sampled: the volumes of the passes and the linear field
Grids == Volumes \cup {LinearGrid}

\* where along an axis a grid is sampled, in units of the spacing from the
\* origin: below the grid, on nodes, between nodes and above the grid
Offsets == {Rat(-3, 2), Rat(-1, 2), Zero, One, Rat(3, 2), R(2), Rat(7, 2)}

PositionAt(volume, g) ==
    VAdd(volume.origin, <<FMul(g[1], volume.spacing[1]), FMul(g[2], volume.spacing[2]),
                          FMul(g[3], volume.spacing[3])>>)

GridPositions(volume) == {PositionAt(volume, g) : g \in Offsets \X Offsets \X Offsets}

\* the calls made on a grid: each function at each of its positions
CallsOn(volume) ==
    {[name |-> name, volume |-> volume, position |-> position, returned |-> FALSE,
      reads |-> <<>>, fault |-> FALSE, result |-> <<>>] :
        name \in {"sample_array", "sample_array_derivative"},
        position \in GridPositions(volume)}

GridInit ==
    /\ FromCamera
    /\ _geometry_render_kernels = <<>>
    /\ objects = <<>>
    /\ call \in UNION {CallsOn(volume) : volume \in Grids}

\* sample_array(array, spacing, origin, position)
SampleArray(volume, position) ==
    /\ call.name = "sample_array" /\ ~call.returned
    /\ call' = [call EXCEPT !.returned = TRUE,
                            !.result = sample_array(volume.array, volume.shape,
                                                    volume.spacing, volume.origin, position)]
    /\ UNCHANGED <<render, objects>>

\* sample_array_derivative(array, spacing, origin, position): a read that
\* leaves the array meets stray memory or faults
SampleArrayDerivative(volume, position, reads, stray, fault) ==
    /\ call.name = "sample_array_derivative" /\ ~call.returned
    /\ call' = [call EXCEPT !.returned = ~fault, !.reads = reads, !.fault = fault,
                            !.result = IF fault THEN <<>>
                                       ELSE sample_array_derivative(
                                                volume.array, volume.shape, volume.spacing,
                                                volume.origin, position, stray)]
    /\ UNCHANGED <<render, objects>>

GridNext ==
    \/ SampleArray(call.volume, call.position)
    \/ \E reads \in {DerivativeReads(call.volume.shape, call.volume.spacing,
                                      call.volume.origin, call.position)} :
         \/ \E stray \in Strays(call.volume.shape, reads) :
                SampleArrayDerivative(call.volume, call.position, reads, stray, FALSE)
         \/ /\ \E n \in 1..6 : ~Within(call.volume.shape, reads[n])
            /\ SampleArrayDerivative(call.volume, call.position, reads,
                                     [n \in 1..6 |-> Zero], TRUE)

\* one call of a sampling function, at any of the positions of any of the grids
GridSpec == GridInit /\ [][GridNext]_vars

\* ------------------------------------------------ Geometry composition

\* number of Geometry objects constructed
MaxObjects == 3

\* quaternion_multiply
quaternion_multiply(q1, q2) ==
    <<FSub(FSub(FSub(FMul(q1[1], q2[1]), FMul(q1[2], q2[2])), FMul(q1[3], q2[3])),
           FMul(q1[4], q2[4])),
      FSub(FAdd(FAdd(FMul(q1[1], q2[2]), FMul(q1[2], q2[1])), FMul(q1[3], q2[4])),
           FMul(q1[4], q2[3])),
      FAdd(FAdd(FSub(FMul(q1[1], q2[3]), FMul(q1[2], q2[4])), FMul(q1[3], q2[1])),
           FMul(q1[4], q2[2])),
      FAdd(FSub(FAdd(FMul(q1[1], q2[4]), FMul(q1[2], q2[3])), FMul(q1[3], q2[2])),
           FMul(q1[4], q2[1]))>>

\* Geometry(sdf, lower_bound, upper_bound, distance_threshold): the object;
\* made records the operation that constructed it and its operands
GeometryObject(new_sdf, lower_bound, upper_bound, distance_threshold, made) ==
    [sdf |-> new_sdf, lower_bound |-> lower_bound, upper_bound |-> upper_bound,
     distance_threshold |-> distance_threshold, made |-> made]

\* Sphere(radius, center); its sdf is the closure over center and radius
Sphere(radius, center) ==
    GeometryObject([kind |-> "sphere", radius |-> radius, center |-> center],
                   VAdd(<<FNeg(radius), FNeg(radius), FNeg(radius)>>, center),
                   VAdd(<<radius, radius, radius>>, center),
                   FDiv(radius, R(100)),
                   [by |-> "Sphere", of |-> <<>>, with |-> <<radius, center>>])

\* the union with the greater of the two distances
AddGreater(self, other) ==
    GeometryObject([kind |-> "and", self |-> self, other |-> other],
                   <<FMin(objects[self].lower_bound[1], objects[other].lower_bound[1]),
                     FMin(objects[self].lower_bound[2], objects[other].lower_bound[2]),
                     FMin(objects[self].lower_bound[3], objects[other].lower_bound[3])>>,
                   <<FMax(objects[self].upper_bound[1], objects[other].upper_bound[1]),
                     FMax(objects[self].upper_bound[2], objects[other].upper_bound[2]),
                     FMax(objects[self].upper_bound[3], objects[other].upper_bound[3])>>,
                   FMin(objects[self].distance_threshold, objects[other].distance_threshold),
                   [by |-> "__add__", of |-> <<self, other>>, with |-> <<>>])

\* Geometry.__add__ of the objects self and other: new_sdf closes over the two
\* sdf functions
__add__(self, other) ==
    GeometryObject([kind |-> "add", sdf |-> objects[self].sdf,
                    other_sdf |-> objects[other].sdf],
                   <<FMin(objects[self].lower_bound[1], objects[other].lower_bound[1]),
                     FMin(objects[self].lower_bound[2], objects[other].lower_bound[2]),
                     FMin(objects[self].lower_bound[3], objects[other].lower_bound[3])>>,
                   <<FMax(objects[self].upper_bound[1], objects[other].upper_bound[1]),
                     FMax(objects[self].upper_bound[2], objects[other].upper_bound[2]),
                     FMax(objects[self].upper_bound[3], objects[other].upper_bound[3])>>,
                   FMin(objects[self].distance_threshold, objects[other].distance_threshold),
                   [by |-> "__add__", of |-> <<self, other>>, with |-> <<>>])

\* Geometry.__sub__: new_sdf closes over the objects self and other
__sub__(self, other) ==
    GeometryObject([kind |-> "sub", self |-> self, other |-> other],
                   objects[self].lower_bound, objects[self].upper_bound,
                   objects[self].distance_threshold,
                   [by |-> "__sub__", of |-> <<self, other>>, with |-> <<>>])

\* Geometry.__and__: new_sdf closes over the objects self and other
__and__(self, other) ==
    GeometryObject([kind |-> "and", self |-> self, other |-> other],
                   <<FMax(objects[self].lower_bound[1], objects[other].lower_bound[1]),
                     FMax(objects[self].lower_bound[2], objects[other].lower_bound[2]),
                     FMax(objects[self].lower_bound[3], objects[other].lower_bound[3])>>,
                   <<FMin(objects[self].upper_bound[1], objects[other].upper_bound[1]),
                     FMin(objects[self].upper_bound[2], objects[other].upper_bound[2]),
                     FMin(objects[self].upper_bound[3], objects[other].upper_bound[3])>>,
                   FMin(objects[self].distance_threshold, objects[other].distance_threshold),
                   [by |-> "__and__", of |-> <<self, other>>, with |-> <<>>])

\* the translation with the offset added to the position
TranslateForward(self, translation) ==
    GeometryObject([kind |-> "translate", sdf |-> objects[self].sdf,
                    translation |-> <<FNeg(translation[1]), FNeg(translation[2]),
                                      FNeg(translation[3])>>],
                   VAdd(objects[self].lower_bound, translation),
                   VAdd(objects[self].upper_bound, translation),
                   objects[self].distance_threshold,
                   [by |-> "translate", of |-> <<self>>, with |-> translation])

\* Geometry.translate: new_sdf closes over the sdf function and the translation
translate(self, translation) ==
    GeometryObject([kind |-> "translate", sdf |-> objects[self].sdf,
                    translation |-> translation],
                   VAdd(objects[self].lower_bound, translation),
                   VAdd(objects[self].upper_bound, translation),
                   objects[self].distance_threshold,
                   [by |-> "translate", of |-> <<self>>, with |-> translation])

\* Geometry.rotate: new_sdf closes over the sdf function, q and q_inv; an
\* angle is given by c = math.cos(angle / 2.0) and s = math.sin(angle / 2.0)
rotate(self, angle, axis) ==
    GeometryObject([kind |-> "rotate", sdf |-> objects[self].sdf,
                    q |-> <<angle.c, FMul(axis[1], angle.s), FMul(axis[2], angle.s),
                            FMul(axis[3], angle.s)>>,
                    q_inv |-> <<angle.c, FMul(FNeg(axis[1]), angle.s),
                                FMul(FNeg(axis[2]), angle.s),
                                FMul(FNeg(axis[3]), angle.s)>>],
                   objects[self].lower_bound, objects[self].upper_bound,
                   objects[self].distance_threshold,
                   [by |-> "rotate", of |-> <<self>>, with |-> <<angle, axis>>])

\* rotate's new_sdf: the position handed to the captured sdf
Rotated(q, pos, q_inv) ==
    quaternion_multiply(quaternion_multiply(q, <<Zero, pos[1], pos[2], pos[3]>>), q_inv)

\* a call of the sdf function f at pos, with the objects objs as they are at
\* the time of the call
RECURSIVE Distance(_, _, _)
Distance(objs, f, pos) ==
    CASE f.kind = "sphere" -> sdf(f, pos)
      [] f.kind = "add" -> FMin(Distance(objs, f.sdf, pos), Distance(objs, f.other_sdf, pos))
      [] f.kind = "sub" -> FMax(Distance(objs, objs[f.self].sdf, pos),
                                FNeg(Distance(objs, objs[f.other].sdf, pos)))
      [] f.kind = "and" -> FMax(Distance(objs, objs[f.self].sdf, pos),
                                Distance(objs, objs[f.other].sdf, pos))
      [] f.kind = "translate" -> Distance(objs, f.sdf, VSub(pos, f.translation))
      [] f.kind = "rotate" ->
            Distance(objs, f.sdf,
                     <<Rotated(f.q, pos, f.q_inv)[2], Rotated(f.q, pos, f.q_inv)[3],
                       Rotated(f.q, pos, f.q_inv)[4]>>)

\* the spheres constructed
Spheres == {Sphere(One, Vec(1, 0, 0)), Sphere(R(2), Vec(0, 3, 0))}

\* the translations applied
Translations == {Vec(1, 0, 0), Vec(0, -2, 1)}

\* the angles turned by: 2*atan(4/3), whose half angle has cosine 3/5 and sine
\* 4/5, and pi
Angles == {[c |-> Rat(3, 5), s |-> Rat(4, 5)], [c |-> Zero, s |-> One]}

\* the unit axes turned about
Axes == {Vec(0, 0, 1), Vec(1, 0, 0)}

\* the object returned is a new one
Construct(object) ==
    /\ Len(objects) < MaxObjects
    /\ objects' = Append(objects, object)
    /\ UNCHANGED <<render, call>>

\* the object translated is updated and returned
TranslateInPlace(self, translation) ==
    /\ Len(objects) < MaxObjects
    /\ objects' = [objects EXCEPT ![self] = translate(self, translation)]
    /\ UNCHANGED <<render, call>>

Translate(self, translation) == Construct(translate(self, translation))

GeometryNext ==
    \/ \E g \in Spheres : Construct(g)
    \/ \E self, other \in 1..Len(objects) : Construct(__add__(self, other))
    \/ \E self, other \in 1..Len(objects) : Construct(__sub__(self, other))
    \/ \E self, other \in 1..Len(objects) : Construct(__and__(self, other))
    \/ \E self \in 1..Len(objects), translation \in Translations :
            Translate(self, translation)
    \/ \E self \in 1..Len(objects), angle \in Angles, axis \in Axes :
            Construct(rotate(self, angle, axis))

\* any sequence of constructions of spheres and of compositions of the
\* objects constructed
GeometrySpec == Init /\ [][GeometryNext]_vars


\* ------------------------------------------ one call of a function on its own

\* ray_intersect_box: the boxes, ray origins and ray directions of the calls.
\* The first box is the one of the 3x3x3 grids, the second a unit box with a
\* corner at the world origin, the third lies behind every ray origin that
\* looks down -z from above it
Boxes ==
    {<<Vec(-1, -1, -1), Vec(2, 2, 2)>>, <<Vec(0, 0, 0), Vec(1, 1, 1)>>,
     <<Vec(-1, -1, 5), Vec(1, 1, 6)>>}

RayOrigins == {camera.position, <<Half, Half, R(4)>>, <<Half, Half, Half>>, Vec(3, 0, 0)}

BoxCentre(box) == VScale(Half, VAdd(box[1], box[2]))

\* the directions of the pixels' rays, a ray along +z, a ray along -x, and the
\* ray aimed at the centre of the box
RayDirections(box, ray_origin) ==
    ({PixelRay(px) : px \in Pixels} \cup {Vec(0, 0, 1), Vec(-1, 0, 0)}
        \cup {VSub(BoxCentre(box), ray_origin)}) \ {Vec(0, 0, 0)}

RayCalls ==
    {[name |-> "ray_intersect_box", box_origin |-> box[1], box_upper |-> box[2],
      ray_origin |-> o, ray_direction |-> d, returned |-> FALSE, result |-> <<>>] :
        <<box, o, d>> \in UNION {{<<b, ro, rd>> : rd \in RayDirections(b, ro)} :
                                    <<b, ro>> \in Boxes \X RayOrigins}}

RayIntersectBox ==
    /\ call.name = "ray_intersect_box" /\ ~call.returned
    /\ call' = [call EXCEPT !.returned = TRUE,
                            !.result = ray_intersect_box(call.box_origin, call.box_upper,
                                                         call.ray_origin, call.ray_direction)]
    /\ UNCHANGED <<render, objects>>

\* scalar_to_color: color tables of N rows, the (vmin, vmax) ranges and the
\* scalar values of the calls
Table(N) == [n \in 1..N |-> <<Rat(n, N), Zero, Zero, One>>]

Tables == {Table(1), Table(2), Table(4)}

Ranges == {<<Zero, One>>, <<R(-1), R(2)>>, <<One, One>>}

Scalars ==
    {FNeg(Inf), R(-2), R(-1), Zero, Rat(1, 4), Rat(1, 3), Half, Rat(3, 4), One,
     Rat(3, 2), R(2), R(3), Inf}

ColorCalls ==
    {[name |-> "scalar_to_color", value |-> v, color_map_array |-> t,
      vmin |-> r[1], vmax |-> r[2], returned |-> FALSE, result |-> <<>>] :
        <<v, t, r>> \in Scalars \X Tables \X Ranges}

ScalarToColor ==
    /\ call.name = "scalar_to_color" /\ ~call.returned
    /\ \E index \in ColorIndices(call.value, call.color_map_array, call.vmin, call.vmax, -1) :
          call' = [call EXCEPT !.returned = TRUE,
                               !.result = [index |-> index,
                                           color |-> scalar_to_color(index, call.color_map_array)]]
    /\ UNCHANGED <<render, objects>>

\* an opacity argument: a Python value with its type.  The value is the
\* sequence of its numbers: one for a bool, an int or a float, the real and the
\* imaginary part of a complex, the elements of a list, a tuple or an array,
\* none for None and for a str
Opacities ==
    {[type |-> "NoneType", value |-> None], [type |-> "float", value |-> <<One>>],
     [type |-> "float", value |-> <<Half>>], [type |-> "float", value |-> <<Zero>>],
     [type |-> "float", value |-> <<R(2)>>], [type |-> "int", value |-> <<One>>],
     [type |-> "int", value |-> <<Zero>>], [type |-> "bool", value |-> <<One>>],
     [type |-> "complex", value |-> <<Zero, One>>], [type |-> "str", value |-> <<>>],
     [type |-> "tuple", value |-> <<Zero, One>>], [type |-> "list", value |-> <<Half, Half>>],
     [type |-> "ndarray", value |-> <<One, Half>>]}

Arrays == {"list", "tuple", "ndarray"}

\* Colormap.__init__: the opacity switch.  The outcome is the exception raised
\* ("" for none) and the object constructed (None when it raised)
ColormapInit(vmin, vmax, opacity) ==
    IF opacity.type = "NoneType"
    THEN [raised |-> "", object |-> <<Colormap(vmin, vmax, None)>>]
    ELSE IF opacity.type = "float" /\ opacity.value[1] = One
    THEN [raised |-> "", object |-> <<Colormap(vmin, vmax, opacity.value)>>]
    ELSE IF opacity.type = "float" /\ FLt(opacity.value[1], One)
    THEN [raised |-> "", object |-> <<Colormap(vmin, vmax, opacity.value)>>]
    ELSE IF opacity.type \in Arrays
    THEN [raised |-> "", object |-> <<Colormap(vmin, vmax, opacity.value)>>]
    ELSE [raised |-> "TypeError", object |-> None]

\* cp.array([[color[0], color[1], color[2], opacity]]): a row of numbers makes
\* an array, every other row (None, str, a nested sequence) is rejected
Numbers == {"bool", "int", "float", "complex"}

\* SolidColor.__init__: the table is made of the opacity without a look at its
\* type, and the opaque flag is opacity == 1.0 (of a complex: both parts equal)
SolidColorInit(color, opacity) ==
    IF opacity.type \in Numbers
    THEN [raised |-> "",
          object |-> <<[SolidColor(color, opacity.value[1]) EXCEPT
                            !.opaque = (opacity.value \in {<<One>>, <<One, Zero>>})]>>]
    ELSE [raised |-> "ValueError", object |-> None]

ColoringCalls ==
    {[name |-> n, opacity |-> o, returned |-> FALSE, result |-> <<>>] :
        <<n, o>> \in {"Colormap", "SolidColor"} \X Opacities}

NewColormap ==
    /\ call.name = "Colormap" /\ ~call.returned
    /\ call' = [call EXCEPT !.returned = TRUE,
                            !.result = ColormapInit(Zero, One, call.opacity)]
    /\ UNCHANGED <<render, objects>>

NewSolidColor ==
    /\ call.name = "SolidColor" /\ ~call.returned
    /\ call' = [call EXCEPT !.returned = TRUE,
                            !.result = SolidColorInit(White, call.opacity)]
    /\ UNCHANGED <<render, objects>>

CallInit ==
    /\ FromCamera
    /\ _geometry_render_kernels = <<>>
    /\ objects = <<>>
    /\ call \in RayCalls \cup ColorCalls \cup ColoringCalls

CallNext ==
    \/ RayIntersectBox
    \/ ScalarToColor
    \/ NewColormap
    \/ NewSolidColor

CallSpec == CallInit /\ [][CallNext]_vars

\* ------------------------------------ one pass, run on two ScreenBuffers

\* Sphere(1.0): the unit sphere at the world origin, with the threshold
\* radius / 100 of Sphere.__init__
UnitSphere == Geometry(One, Vec(0, 0, 0), Rat(1, 100))

\* the same sphere one unit further down the optical axis: the scene of a
\* camera at distance 5 from the sphere's centre, whose surface is max_depth away
FarSphere == Geometry(One, Vec(0, 0, -1), Rat(1, 100))

\* a sphere of radius 3 that holds the camera, 17/10 in front of its centre
Shell == Geometry(R(3), <<Zero, Zero, Rat(23, 10)>>, One)

\* a sphere off the optical axis, handed to Geometry with a threshold of 2
Aside == Geometry(Rat(9, 4), Vec(3, 0, 0), R(2))

\* a sphere of radius 3 about the camera: every pixel's ray meets it
Around == Geometry(R(3), camera.position, One)

Scenes == {UnitSphere, FarSphere, Shell, Aside, Around}

\* Sphere.__init__: lower_bound and upper_bound
BoundBox(g) ==
    <<VAdd(<<FNeg(g.radius), FNeg(g.radius), FNeg(g.radius)>>, g.center),
      VAdd(<<g.radius, g.radius, g.radius>>, g.center)>>

\* geometry() or contour() on the first ScreenBuffer
SceneGeometry ==
    /\ \E g \in Scenes, color \in SolidColors : LaunchGeometry(g, color)
    /\ Record
SceneContour ==
    /\ \E volume \in Volumes, threshold \in Thresholds, colormap \in OptionalColormaps :
         LaunchContour(volume, threshold, colormap)
    /\ Record

\* a second ScreenBuffer.from_camera(camera), after the pass on the first has
\* run; memo keeps the five buffers of the first
OtherBuffer ==
    /\ Idle
    /\ memo = <<>>
    /\ order # <<>>
    /\ memo' = <<opaque_pixel_buffer, depth_buffer, normal_buffer,
                 transparent_pixel_buffer, revealage_buffer>>
    /\ todo' = order
    /\ opaque_pixel_buffer' = [px \in Pixels |-> Black]
    /\ depth_buffer' = [px \in Pixels |-> Inf]
    /\ normal_buffer' = [px \in Pixels |-> Black]
    /\ transparent_pixel_buffer' = [px \in Pixels |-> Black]
    /\ revealage_buffer' = [px \in Pixels |-> One]
    /\ background_buffer' = [px \in Pixels |-> camera.background]
    /\ image_buffer' = [e \in ImageEntries |-> <<Zero, Zero, Zero, Zero>>]
    /\ fragments' = [px \in Pixels |-> {}]
    /\ depth_writes' = [px \in Pixels |-> 0]
    /\ op' = "from_camera"
    /\ UNCHANGED <<kernel, thread, int_of_nan, passes, order, scheduled,
                   _geometry_render_kernels>>

\* one pass on a ScreenBuffer and the same pass on a second one, the threads of
\* each in any order, and image() of either
SceneNext ==
    \/ order = <<>> /\ SceneGeometry /\ UNCHANGED host
    \/ order = <<>> /\ SceneContour /\ UNCHANGED host
    \/ OtherBuffer /\ UNCHANGED host
    \/ Replay /\ UNCHANGED host
    \/ \E px \in Pixels : GeometryMarch(px) /\ UNCHANGED <<pair, host>>
    \/ \E px \in Pixels : GeometryPassThrough(px) /\ UNCHANGED <<pair, host>>
    \/ \E px \in Pixels : ContourMarch(px) /\ UNCHANGED <<pair, host>>
    \/ Image /\ UNCHANGED <<pair, host>>

SceneSpec == Init /\ [][SceneNext]_vars
\* ---------------------------------------------------------------- claims

Centre == <<3, 8>>
Edge == <<3, 0>>

\* C1: over any sequence of geometry, contour and volume passes with no
\* clear() between them, no pixel's depth-buffer value ever increases: every
\* step other than clear() leaves each depth at most what it was.
DepthNeverIncreases ==
    [][op' # "clear" => \A px \in Pixels : FLe(depth_buffer'[px], depth_buffer[px])]_vars

\* the centre pixel has taken two depth writes, the second one nearer
DepthWrittenTwice == depth_writes[Centre] = 2 /\ depth_buffer[Centre] = R(2)

\* C2: a pixel's revealage never increases from one update of a pass to the
\* next and always stays within [0,1] (all alphas are in [0,1], all grid
\* spacings positive).
RevealageInUnitRange ==
    [][op' # "clear" =>
         \A px \in Pixels : /\ FLe(revealage_buffer'[px], revealage_buffer[px])
                            /\ FLe(Zero, revealage_buffer'[px])
                            /\ FLe(revealage_buffer'[px], One)]_vars

\* C3: once the passes have run, in whatever order, no pixel holds the
\* contribution of a transparent fragment that lies farther than the pixel's
\* depth-buffer value.
NoFragmentBehindDepth ==
    Idle => \A px \in Pixels : \A f \in fragments[px] : FLe(f, depth_buffer[px])

\* the distance the thread of px has marched along its ray
Marched(px) ==
    IF kernel.name = "geometry" THEN thread[px].distance_traveled ELSE thread[px].distance

\* the buffer entries of pixel px
Entries(px) ==
    <<opaque_pixel_buffer[px], depth_buffer[px], normal_buffer[px],
      transparent_pixel_buffer[px], revealage_buffer[px]>>

\* C4: in every pass, once the distance marched along a pixel's ray exceeds
\* the depth stored for the pixel, the next step of that pixel's thread ends
\* its march and writes none of the pixel's buffer entries.
MarchEndsBehindDepth ==
    [][\A px \in Pixels :
         (/\ thread[px].pc # "done"
          /\ FGt(Marched(px), depth_buffer[px])
          /\ thread'[px] # thread[px])
         => (thread'[px].pc = "done" /\ Entries(px)' = Entries(px))]_vars

\* C5: after ScreenBuffer.image, for every pixel (y, x), the image entry in row
\* H-1-y, column x is base*(1-alpha) + transparent_accum*alpha with alpha
\* channel 1, where base is the opaque color if the depth is finite and the
\* background otherwise and alpha = 1 - revealage; with revealage 1 it is the
\* base color.
ImageFormula ==
    op = "image" =>
        \A px \in Pixels :
            \E base \in {IF IsFinite(depth_buffer[px]) THEN opaque_pixel_buffer[px]
                         ELSE background_buffer[px]},
               alpha \in {FSub(One, revealage_buffer[px])},
               out \in {image_buffer[<<camera.height - 1 - px[1], px[2]>>]} :
                /\ \A i \in 1..3 :
                     out[i] = FAdd(FMul(base[i], FSub(One, alpha)),
                                   FMul(transparent_pixel_buffer[px][i], alpha))
                /\ out[4] = One
                /\ revealage_buffer[px] = One => <<out[1], out[2], out[3]>> = base

\* an image of an opaque hit under a transparent fragment at the centre and of
\* the bare background at the edge
ImageOfBlendedPixel ==
    /\ op = "image"
    /\ depth_buffer[Centre] # Inf
    /\ FLt(Zero, revealage_buffer[Centre]) /\ FLt(revealage_buffer[Centre], One)
    /\ revealage_buffer[Edge] = One
    /\ image_buffer[<<2, 0>>] = <<camera.background[1], camera.background[2],
                                  camera.background[3], One>>

\* C6: ScreenBuffer.image leaves the six buffers unchanged, and an image taken
\* right after another one, with no pass and no clear() between, is the same
\* image.
ImageIsPure ==
    [][op' = "image" =>
         /\ buffers' = buffers
         /\ op = "image" => image_buffer' = image_buffer]_vars

\* an image taken after two passes that left an opaque hit and a transparent
\* fragment
ImageAfterPasses ==
    /\ op = "image"
    /\ passes = 2
    /\ depth_buffer[Centre] # Inf
    /\ transparent_pixel_buffer[Centre] # Black
    /\ image_buffer[<<2, 8>>][4] = One

\* C7: after any passes followed by clear(), the six buffers are those of
\* a fresh from_camera(camera): depth +inf, revealage 1, opaque color, normal
\* and transparent_accum 0, background the camera's background color.
ClearRestoresFresh ==
    op = "clear" =>
        /\ opaque_pixel_buffer = [px \in Pixels |-> Black]
        /\ depth_buffer = [px \in Pixels |-> Inf]
        /\ normal_buffer = [px \in Pixels |-> Black]
        /\ transparent_pixel_buffer = [px \in Pixels |-> Black]
        /\ revealage_buffer = [px \in Pixels |-> One]
        /\ background_buffer = [px \in Pixels |-> camera.background]

\* C8: every pass terminates for every pixel: each launched thread returns
\* after finitely many loop iterations.
EveryThreadReturns == \A px \in Pixels : []<>(thread[px].pc = "done")

\* C9: two transparent passes P and Q on ScreenBuffers with the same depth
\* buffer leave every pixel's transparent_accum and revealage the same whether
\* P runs before Q or Q before P.
TransparentPassesCommute ==
    (memo # <<>> /\ todo = <<>> /\ Idle) =>
        /\ transparent_pixel_buffer = memo[1]
        /\ revealage_buffer = memo[2]

\* both orders have run, of two different passes that each left a fragment at
\* the centre pixel, in front of an opaque hit
BothOrdersRan ==
    /\ memo # <<>> /\ todo = <<>> /\ Idle
    /\ Len(order) = 3
    /\ order[2] # order[3]
    /\ order[2].name # order[3].name
    /\ depth_buffer[Centre] # Inf
    /\ Cardinality(fragments[Centre]) >= 2
    /\ memo[2][Centre] # One

\* the all-zero field of Volumes
ZeroField == Layered(<<3, 3, 3>>, <<0, 0, 0>>)

\* C10 as stated: after the volume pass over an all-zero field on a fresh
\* buffer, every pixel has transparent_accum 0 and revealage 1, and the image
\* composited from it is the background in every pixel.
ZeroFieldLeavesBackground ==
    (/\ passes = 1
     /\ kernel.name = "volume"
     /\ kernel.volume.array = ZeroField
     /\ background_buffer = [px \in Pixels |-> camera.background]
     /\ Idle)
    => /\ transparent_pixel_buffer = [px \in Pixels |-> Black]
       /\ revealage_buffer = [px \in Pixels |-> One]
       /\ op = "image" =>
            \A px \in Pixels :
                image_buffer[<<camera.height - 1 - px[1], px[2]>>] =
                    <<camera.background[1], camera.background[2],
                      camera.background[3], One>>

\* the volume pass has run over the all-zero field on a fresh buffer, with a
\* colormap of range vmin < vmax whose table entry for the scalar 0 has opacity 0
ZeroFieldPass ==
    /\ passes = 1
    /\ kernel.name = "volume"
    /\ kernel.volume.array = ZeroField
    /\ FLt(kernel.color.vmin, kernel.color.vmax)
    /\ scalar_to_color(Trunc(ScaledValue(Zero, kernel.color.color_map_array,
                                         kernel.color.vmin, kernel.color.vmax)),
                       kernel.color.color_map_array)[4] = Zero
    /\ background_buffer = [px \in Pixels |-> camera.background]
    /\ Idle

\* C10: after the volume pass over an all-zero field on a fresh buffer, with a
\* colormap of range vmin < vmax whose table entry for the scalar 0 has
\* opacity 0, every pixel has transparent_accum 0 and revealage 1, and the
\* image composited from it is the background in every pixel.
ZeroFieldUnderClearColormap ==
    ZeroFieldPass
    => /\ transparent_pixel_buffer = [px \in Pixels |-> Black]
       /\ revealage_buffer = [px \in Pixels |-> One]
       /\ op = "image" =>
            \A px \in Pixels :
                image_buffer[<<camera.height - 1 - px[1], px[2]>>] =
                    <<camera.background[1], camera.background[2],
                      camera.background[3], One>>

\* the image of such a pass has been composited
ZeroFieldImaged == ZeroFieldPass /\ op = "image"

\* -------------------------------------------------- claims: early exit

\* C11: the volume pass stops marching a pixel's ray, and accumulates no more
\* into that pixel, once the pixel's accumulated opacity 1 - revealage is at
\* least 0.99: the next step of such a thread ends it and writes nothing.
VolumeStopsWhenCovered ==
    [][\A px \in Pixels :
         (/\ kernel.name = "volume"
          /\ thread[px].pc # "done"
          /\ FGe(FSub(One, revealage_buffer[px]), Rat(99, 100))
          /\ thread'[px] # thread[px])
         => (thread'[px].pc = "done" /\ Entries(px)' = Entries(px))]_vars

\* ------------------------------------------------ claims: grid sampling

\* the cell of the grid in which sample_array and sample_array_derivative
\* place the position of the call
Cell ==
    <<Trunc(GridCoordinate(call.volume.spacing, call.volume.origin, call.position)[1]),
      Trunc(GridCoordinate(call.volume.spacing, call.volume.origin, call.position)[2]),
      Trunc(GridCoordinate(call.volume.spacing, call.volume.origin, call.position)[3])>>

\* the values at the eight corners of that cell, indices clamped into the array
Neighbours ==
    {_safe_index_array(call.volume.array, call.volume.shape,
                       Cell[1] + a, Cell[2] + b, Cell[3] + c) :
        a \in {0, 1}, b \in {0, 1}, c \in {0, 1}}

\* C12: sample_array never extrapolates: at every position, inside or outside
\* the grid, it returns a value between the least and the greatest of the
\* eight index-clamped neighbour values.
SampleNeverExtrapolates ==
    (call.name = "sample_array" /\ call.returned) =>
        /\ \E lo \in Neighbours : FLe(lo, call.result)
        /\ \E hi \in Neighbours : FLe(call.result, hi)

\* C13: sample_array_derivative is total: at every position it reads only
\* array elements whose indices are within the array on all three axes, and
\* it returns.
DerivativeReadsWithinArray ==
    (call.name = "sample_array_derivative" /\ (call.returned \/ call.fault)) =>
        /\ call.returned
        /\ \A n \in 1..6 : \A axis \in 1..3 :
             call.reads[n][axis] \in 0..(call.volume.shape[axis] - 1)

\* the element of the array of the call at idx with the index m on axis
Along(idx, axis, m) == call.volume.array[[idx EXCEPT ![axis] = m]]

\* the difference quotient the scheme prescribes on axis for the cell idx
Prescribed(idx, axis, n, h) ==
    IF idx[axis] = 0
    THEN FDiv(FSub(Along(idx, axis, 1), Along(idx, axis, 0)), h)
    ELSE IF idx[axis] = n - 1
    THEN FDiv(FSub(Along(idx, axis, n - 1), Along(idx, axis, n - 2)), h)
    ELSE FDiv(FSub(Along(idx, axis, idx[axis] + 1), Along(idx, axis, idx[axis] - 1)),
              FMul(R(2), h))

\* the position of the call lies in the grid, in a cell whose index is within
\* the array on every axis
InsideGrid ==
    \A axis \in 1..3 :
        /\ FLe(Zero, GridCoordinate(call.volume.spacing, call.volume.origin,
                                    call.position)[axis])
        /\ Cell[axis] <= call.volume.shape[axis] - 1

\* C14: per axis of at least two nodes, the gradient at a position in the grid
\* is the forward difference (f[1]-f[0])/spacing in the lowest cell, the
\* backward difference (f[n-1]-f[n-2])/spacing in the highest, and the central
\* difference (f[i+1]-f[i-1])/(2*spacing) in between.
DerivativeScheme ==
    (call.name = "sample_array_derivative" /\ call.returned /\ InsideGrid) =>
        \A axis \in 1..3 :
            call.volume.shape[axis] >= 2 =>
                call.result[axis] =
                    Prescribed(Cell, axis, call.volume.shape[axis], call.volume.spacing[axis])

\* the cell index of the call is interior on every axis
InteriorCell ==
    \A axis \in 1..3 : 0 < Cell[axis] /\ Cell[axis] < call.volume.shape[axis] - 1

\* C15: on the grid of the linear field a*x + b*y + c*z, the gradient at any
\* position whose cell index is interior on every axis is (a, b, c) exactly.
DerivativeOfLinearField ==
    (/\ call.name = "sample_array_derivative" /\ call.returned
     /\ call.volume = LinearGrid /\ InteriorCell)
        => call.result = LinearCoef

\* the gradient of the linear field was taken between the nodes of its
\* interior cell
LinearGradientTaken ==
    /\ call.name = "sample_array_derivative" /\ call.returned
    /\ call.volume = LinearGrid
    /\ call.position = PositionAt(LinearGrid, <<Rat(3, 2), One, Rat(3, 2)>>)
    /\ call.result = <<One, R(-2), Rat(3, 2)>>

\* C16: sampling at a position that is exactly a lattice node origin +
\* index*spacing, nodes on the upper edge included, returns the value stored
\* at that node.
SampleAtNodeIsNode ==
    (call.name = "sample_array" /\ call.returned) =>
        \A idx \in DOMAIN call.volume.array :
            call.position = PositionAt(call.volume, <<R(idx[1]), R(idx[2]), R(idx[3])>>)
                => call.result = call.volume.array[idx]

\* the linear field was sampled at its node on the upper edge of every axis
UpperNodeSampled ==
    /\ call.name = "sample_array" /\ call.returned
    /\ call.volume = LinearGrid
    /\ call.position = PositionAt(LinearGrid, <<R(2), R(2), R(2)>>)
    /\ call.result = LinearGrid.array[<<2, 2, 2>>]
    /\ call.result # LinearGrid.array[<<1, 2, 2>>]

\* ------------------------------------------- claims: Geometry composition

\* the points at which distances are compared
Points == {Vec(0, 0, 0), Vec(1, 0, 0), Vec(0, 3, 0)}

\* the points at which the distances of rotated objects are compared: with
\* them the point to which the turn by 2*atan(4/3) about z takes (1, 0, 0)
TurnedPoints == Points \cup {<<Rat(-7, 25), Rat(24, 25), Zero>>}

\* the distance function of the object id at p
DistanceOf(id, p) == Distance(objects, objects[id].sdf, p)

\* p turned about the unit axis by the inverse of the rotation by angle
\* (Rodrigues' formula with the angle negated)
InverseTurned(p, cos_angle, sin_angle, axis) ==
    VAdd(VAdd(VScale(cos_angle, p), VScale(FNeg(sin_angle), cross(axis, p))),
         VScale(FMul(dot(axis, p), FSub(One, cos_angle)), axis))

InverseRotated(p, angle, axis) ==
    InverseTurned(p, FSub(FMul(angle.c, angle.c), FMul(angle.s, angle.s)),
                  FMul(R(2), FMul(angle.c, angle.s)), axis)

\* C17: the distance of A.rotate(angle, axis) at p is the distance of A at p
\* rotated by the inverse of the rotation, and the rotated object keeps A's
\* bound box and distance threshold.
RotateLaw ==
    \A id \in 1..Len(objects) :
        objects[id].made.by = "rotate" =>
            /\ \A p \in TurnedPoints :
                 DistanceOf(id, p) =
                    DistanceOf(objects[id].made.of[1],
                               InverseRotated(p, objects[id].made.with[1],
                                              objects[id].made.with[2]))
            /\ objects[id].lower_bound = objects[objects[id].made.of[1]].lower_bound
            /\ objects[id].upper_bound = objects[objects[id].made.of[1]].upper_bound
            /\ objects[id].distance_threshold =
                    objects[objects[id].made.of[1]].distance_threshold

\* the lesser and the greater of two floats
Lesser(a, b) == IF FLe(a, b) THEN a ELSE b
Greater(a, b) == IF FLe(a, b) THEN b ELSE a

\* C18: the distance of A + B at every point is the lesser of the distances of
\* A and B, its bound box is the componentwise least lower and greatest upper
\* bound, and its distance threshold the lesser of the two.
UnionLaw ==
    \A id \in 1..Len(objects) :
        objects[id].made.by = "__add__" =>
            \E a \in {objects[id].made.of[1]}, b \in {objects[id].made.of[2]} :
                /\ \A p \in Points :
                     DistanceOf(id, p) = Lesser(DistanceOf(a, p), DistanceOf(b, p))
                /\ \A axis \in 1..3 :
                     /\ objects[id].lower_bound[axis] =
                            Lesser(objects[a].lower_bound[axis], objects[b].lower_bound[axis])
                     /\ objects[id].upper_bound[axis] =
                            Greater(objects[a].upper_bound[axis], objects[b].upper_bound[axis])
                /\ objects[id].distance_threshold =
                        Lesser(objects[a].distance_threshold, objects[b].distance_threshold)

\* the union of the two spheres: at one point the first is nearer, at another
\* the second
UnionOfTwoSpheres ==
    /\ Len(objects) = 3
    /\ objects[1] = Sphere(One, Vec(1, 0, 0))
    /\ objects[2] = Sphere(R(2), Vec(0, 3, 0))
    /\ objects[3].made = [by |-> "__add__", of |-> <<1, 2>>, with |-> <<>>]
    /\ DistanceOf(3, Vec(0, 0, 0)) = Zero
    /\ DistanceOf(3, Vec(0, 3, 0)) = R(-2)

\* C19: the distance of A.translate(t) at p is the distance of A at p - t, its
\* bound box is A's shifted by t, and translating by t and then by u gives the
\* distances and the bound box that translating by t + u gives.
TranslationLaw ==
    \A id \in 1..Len(objects) :
        objects[id].made.by = "translate" =>
            \E a \in {objects[id].made.of[1]}, u \in {objects[id].made.with} :
                /\ \A p \in Points : DistanceOf(id, p) = DistanceOf(a, VSub(p, u))
                /\ objects[id].lower_bound = VAdd(objects[a].lower_bound, u)
                /\ objects[id].upper_bound = VAdd(objects[a].upper_bound, u)
                /\ objects[a].made.by = "translate" =>
                     \E b \in {objects[a].made.of[1]}, t \in {objects[a].made.with} :
                        /\ \A p \in Points :
                             DistanceOf(id, p) = DistanceOf(b, VSub(p, VAdd(t, u)))
                        /\ objects[id].lower_bound = VAdd(objects[b].lower_bound, VAdd(t, u))
                        /\ objects[id].upper_bound = VAdd(objects[b].upper_bound, VAdd(t, u))
                        /\ objects[id].distance_threshold = objects[b].distance_threshold

\* a sphere translated by (1,0,0) and the result translated by (0,-2,1)
TranslatedTwice ==
    /\ Len(objects) = 3
    /\ objects[1] = Sphere(One, Vec(1, 0, 0))
    /\ objects[2].made = [by |-> "translate", of |-> <<1>>, with |-> Vec(1, 0, 0)]
    /\ objects[3].made = [by |-> "translate", of |-> <<2>>, with |-> Vec(0, -2, 1)]
    /\ objects[3].lower_bound = Vec(1, -3, 0)

\* C20: union, difference, intersection, translate and rotate each return a
\* new Geometry and leave the distance function, the bound box and the
\* distance threshold of every object there is as they were.
OperandsUnchanged ==
    [][/\ \A id \in 1..Len(objects) :
            /\ id <= Len(objects')
            /\ objects'[id] = objects[id]
            /\ \A p \in Points :
                 Distance(objects', objects'[id].sdf, p) = DistanceOf(id, p)
       /\ objects' # objects => Len(objects') = Len(objects) + 1]_vars

\* a difference whose operands are a translated sphere and the sphere itself
DifferenceOfComposite ==
    /\ Len(objects) = 3
    /\ objects[2].made.by = "translate"
    /\ objects[3].made = [by |-> "__sub__", of |-> <<2, 1>>, with |-> <<>>]


\* ---------------------------------------------------------------- claims C21..C30

\* the parameters at which a ray can enter a box: 0 and the finite, non-negative
\* parameters at which it meets the six planes of the faces
PlaneParameters(box_origin, box_upper, ray_origin, ray_direction) ==
    {t \in {Zero} \cup UNION {{FDiv(FSub(box_origin[a], ray_origin[a]), ray_direction[a]),
                               FDiv(FSub(box_upper[a], ray_origin[a]), ray_direction[a])} :
                                 a \in {a \in 1..3 : ray_direction[a] # Zero}} :
        FGe(t, Zero)}

Inside(box_origin, box_upper, p) ==
    \A a \in 1..3 : FLe(box_origin[a], p[a]) /\ FLe(p[a], box_upper[a])

\* the ray meets the (closed) box at some parameter t >= 0
Meets(box_origin, box_upper, ray_origin, ray_direction) ==
    \E t \in PlaneParameters(box_origin, box_upper, ray_origin, ray_direction) :
        Inside(box_origin, box_upper, VAdd(ray_origin, VScale(t, ray_direction)))

AimedAtCentre(c) ==
    /\ ~Inside(c.box_origin, c.box_upper, c.ray_origin)
    /\ c.ray_direction = VSub(BoxCentre(<<c.box_origin, c.box_upper>>), c.ray_origin)

\* C21: ray_intersect_box returns (t0, t1) such that the ray meets the box at
\* some t >= 0 if and only if t0 <= t1; a ray that starts outside the box and
\* is aimed at its centre yields finite t0 < t1, and a ray that misses the box
\* yields t0 > t1
RayBoxLaw ==
    (call.name = "ray_intersect_box" /\ call.returned) =>
        LET meets == Meets(call.box_origin, call.box_upper, call.ray_origin, call.ray_direction)
            t0 == call.result[1]
            t1 == call.result[2]
        IN  /\ meets <=> FLe(t0, t1)
            /\ AimedAtCentre(call) => IsFinite(t0) /\ IsFinite(t1) /\ FLt(t0, t1)
            /\ ~meets => FGt(t0, t1)

\* C30: for a table of N >= 1 rows and vmin < vmax, scalar_to_color maps every
\* scalar to a table index in 0..N-1: a value <= vmin to 0, a value >= vmax to
\* N-1, no smaller value to a larger index, and every value to 0 when N = 1
ScalarIndexLaw ==
    (call.name = "scalar_to_color" /\ call.returned /\ FLt(call.vmin, call.vmax)) =>
        LET N == Len(call.color_map_array)
            index == call.result.index
        IN  /\ index \in 0..(N - 1)
            /\ FLe(call.value, call.vmin) => index = 0
            /\ FGe(call.value, call.vmax) => index = N - 1
            /\ \A smaller \in {v \in Scalars : FLe(v, call.value)} :
                  \A below \in ColorIndices(smaller, call.color_map_array,
                                            call.vmin, call.vmax, -1) : below <= index
            /\ N = 1 => index = 0

\* a value strictly inside the range took a row strictly inside a four-row table
ScalarInsideRange ==
    /\ call.name = "scalar_to_color" /\ call.returned
    /\ FLt(call.vmin, call.value) /\ FLt(call.value, call.vmax)
    /\ Len(call.color_map_array) = 4
    /\ call.result.index \in 1..2

\* the types of opacity the colorings document: None, a float, or an array
OpacityTypes == {"NoneType", "float"} \cup Arrays

\* C25: constructing a Colormap or a SolidColor with an opacity of an
\* unsupported type raises and yields no object; for an accepted argument the
\* opaque flag is true exactly when the opacity is absent or equal to 1.0, and
\* false for a float below 1.0 and for an array
ColoringLaw ==
    (call.name \in {"Colormap", "SolidColor"} /\ call.returned) =>
        LET opacity == call.opacity
            outcome == call.result
        IN  /\ opacity.type \notin OpacityTypes =>
                  outcome.raised # "" /\ outcome.object = None
            /\ outcome.raised = "" =>
                  /\ outcome.object # None
                  /\ outcome.object[1].opaque <=>
                        (opacity.type = "NoneType" \/ opacity.value = <<One>>)
                  /\ (opacity.type \in Arrays \/
                      (opacity.type = "float" /\ FLt(opacity.value[1], One))) =>
                        ~outcome.object[1].opaque

\* C24: a step of an opaque geometry or contour pass changes only the opaque
\* color, depth and normal buffers; a step of a transparent geometry or contour
\* pass or of the volume pass changes only the transparent color and the
\* revealage buffer; no step of a pass changes the background buffer, and no
\* step of a running kernel changes its arguments (the grid, the color table,
\* the geometry)
PassWriteSets ==
    [][op' \in {"geometry", "contour", "volume"} =>
          /\ background_buffer' = background_buffer
          /\ image_buffer' = image_buffer
          /\ passes' = passes => kernel' = kernel
          /\ IF kernel'.name # "volume" /\ kernel'.color.opaque
             THEN /\ transparent_pixel_buffer' = transparent_pixel_buffer
                  /\ revealage_buffer' = revealage_buffer
             ELSE /\ opaque_pixel_buffer' = opaque_pixel_buffer
                  /\ depth_buffer' = depth_buffer
                  /\ normal_buffer' = normal_buffer]_vars

\* a transparent contour pass that followed an opaque pass has written the
\* centre pixel's revealage and left the depth the opaque pass stored
TransparentOverOpaque ==
    /\ Idle /\ kernel.name = "contour" /\ ~kernel.color.opaque
    /\ revealage_buffer[Centre] # One
    /\ depth_writes[Centre] = 1
    /\ normal_buffer[Centre] # Black

\* the k-th sample and the one after it lie strictly on opposite sides of the
\* threshold
Straddles(value, next_value, threshold) ==
    FLt(FMul(FSub(value, threshold), FSub(next_value, threshold)), Zero)

\* the sample after the one the thread of px holds
NextSample(px) ==
    sample_array(kernel.volume.array, kernel.volume.shape, kernel.volume.spacing,
                 kernel.volume.origin,
                 VAdd(thread[px].ray_pos,
                      VScale(StepSize(kernel.volume), thread[px].ray_direction)))

\* the thread of px makes a loop iteration of the contour pass in front of the
\* stored depth
ContourIteration(px) ==
    /\ kernel.name = "contour" /\ thread[px].pc = "march"
    /\ passes' = passes /\ op' = "contour"
    /\ thread'[px] # thread[px]
    /\ ~FGt(thread[px].distance, depth_buffer[px])

\* the OIT update of the entries of px by a fragment at the distance marched
Updated(px) ==
    \E row \in {kernel.color.color_map_array[n] : n \in DOMAIN kernel.color.color_map_array} :
        /\ revealage_buffer'[px] =
              FMul(revealage_buffer[px],
                   FSub(One, FMul(row[4], OITWeight(thread[px].distance, camera.max_depth))))
        /\ fragments'[px] = IF row[4] = Zero THEN fragments[px]
                            ELSE fragments[px] \cup {thread[px].distance}
        /\ depth_writes'[px] = depth_writes[px]

\* C26: in the contour pass, an iteration whose two consecutive samples lie on
\* opposite sides of the threshold detects one crossing, with an interpolation
\* parameter in [0, 1]: a transparent coloring takes exactly one OIT update and
\* the march goes on, an opaque coloring takes one write and the thread returns
\* (so only the first crossing is written); an iteration whose samples lie on
\* the same side, or whose next sample is the threshold, writes nothing
CrossingsDetected ==
    [][\A px \in Pixels : ContourIteration(px) =>
          LET th == thread[px]
              next_value == NextSample(px)
              t == FDiv(FSub(kernel.threshold, th.value), FSub(next_value, th.value))
          IN  /\ Straddles(th.value, next_value, kernel.threshold) =>
                    /\ FLe(Zero, t) /\ FLe(t, One)
                    /\ IF kernel.color.opaque
                       THEN /\ depth_writes'[px] = depth_writes[px] + 1
                            /\ depth_buffer'[px] = th.distance
                            /\ thread'[px].pc = "done"
                            /\ fragments'[px] = fragments[px]
                       ELSE /\ Updated(px)
                            /\ IF th.step + 1 >= th.steps THEN thread'[px].pc = "done"
                               ELSE /\ thread'[px].pc = "march"
                                    /\ thread'[px].sign = -th.sign
              /\ (FGt(FMul(FSub(th.value, kernel.threshold),
                           FSub(next_value, kernel.threshold)), Zero)
                  \/ next_value = kernel.threshold) =>
                    /\ Entries(px)' = Entries(px)
                    /\ fragments'[px] = fragments[px]
                    /\ thread'[px].pc = "done" \/ thread'[px].sign = th.sign]_vars

\* a ray whose samples change sides twice has taken two updates of a
\* transparent contour, at the distances of the two crossings
TwoCrossingsTwoUpdates ==
    /\ Idle /\ kernel.name = "contour" /\ ~kernel.color.opaque
    /\ passes = 1
    /\ Cardinality(fragments[Centre]) = 2

\* C29: the kernel geometry() launches, whether built or taken from the store,
\* is the kernel a fresh build for its arguments would be: it runs the sdf of
\* the geometry handed in and the opaque flag of the coloring handed in, so the
\* opaque and the transparent variant of a geometry never stand in for each other
CachedKernelIsFresh ==
    kernel.name = "geometry" =>
        /\ kernel.geometry = kernel.invoked.geometry
        /\ kernel.color = kernel.invoked.color
        /\ \A key \in DOMAIN _geometry_render_kernels :
              _geometry_render_kernels[key] = [sdf |-> key[1], opaque |-> key[2]]

\* a second pass of one geometry took its kernel out of the store and has run
\* to its end
KernelReused ==
    /\ Idle /\ passes = 2
    /\ kernel.name = "geometry" /\ kernel.cached
    /\ \E px \in Pixels : depth_writes[px] + Cardinality(fragments[px]) > 0

\* the ScreenBuffer in use has taken its pass: the first one before the second
\* is made, the second one once the pass has been launched on it
Rendered == order # <<>> /\ (memo = <<>> \/ todo = <<>>)

\* an opaque geometry pass over the unit sphere g has run on the ScreenBuffer
SphereScene(g) ==
    /\ Idle /\ Rendered /\ kernel.name = "geometry"
    /\ kernel.invoked.geometry = g /\ kernel.invoked.color.opaque

\* the depth stored for the centre pixel is within radius / 100 of d - 1, d
\* the distance of the camera from the centre of g
DepthOfSphere(g) ==
    FLe(FAbs(FSub(depth_buffer[Centre],
                  FSub(length(VSub(camera.position, g.center)), g.radius))),
        FDiv(g.radius, R(100)))

WithinFarPlane ==
    kernel.name = "geometry" =>
        \A px \in Pixels :
            /\ depth_buffer[px] # Inf => FLe(depth_buffer[px], camera.max_depth)
            /\ \A f \in fragments[px] : FLe(f, camera.max_depth)

\* the ray-box parameters (t0, t1) of the ray of px and the bound box of g
BoxParameters(px, g) ==
    ray_intersect_box(BoundBox(g)[1], BoundBox(g)[2], camera.position, PixelRay(px))

\* a step of a thread of the geometry pass
GeometryIteration == kernel.name = "geometry" /\ op' = "geometry" /\ passes' = passes

\* C28: in the geometry pass, a pixel whose ray does not meet the bound box of
\* the geometry (ray-box result t0 > t1) has none of its buffer entries
\* modified, and a thread that marches has traveled a distance between the
\* parameters t0 and t1 of its ray and the box
MarchWithinBoundBox ==
    [][GeometryIteration =>
          \A px \in Pixels : \A t \in {BoxParameters(px, kernel.invoked.geometry)} :
              IF FGt(t[1], t[2])
              THEN Entries(px)' = Entries(px)
              ELSE thread'[px].pc = "march" =>
                      /\ FLe(t[1], thread'[px].distance_traveled)
                      /\ FLe(thread'[px].distance_traveled, t[2])]_vars

\* the first half of C28 alone: a pixel whose ray does not meet the bound box
\* has none of its buffer entries modified
BoxMissedLeavesPixel ==
    [][GeometryIteration =>
          \A px \in Pixels : \A t \in {BoxParameters(px, kernel.invoked.geometry)} :
              FGt(t[1], t[2]) => Entries(px)' = Entries(px)]_vars

\* the thread of px makes a step of the running pass
UnitStep(px) == passes' = passes /\ thread'[px] # thread[px]

\* C23: within one pass the unit of pixel (x, y) writes only the entries of its
\* own pixel in the five buffers, so that the same pass run on two fresh
\* ScreenBuffers with its units interleaved in any two ways leaves the same
\* buffers; in image() no two units write the same output entry
UnitsIndependent ==
    [][/\ \A px \in Pixels : UnitStep(px) =>
              \A other \in Pixels \ {px} :
                  Entries(other)' = Entries(other) /\ thread'[other] = thread[other]
       /\ (memo' # <<>> /\ todo' = <<>> /\ \A px \in Pixels : thread'[px].pc = "done") =>
              memo' = <<opaque_pixel_buffer', depth_buffer', normal_buffer',
                        transparent_pixel_buffer', revealage_buffer'>>
       /\ op' = "image" =>
              \A px \in Pixels : \A other \in Pixels \ {px} :
                  CombineTarget(px) # CombineTarget(other)]_vars

\* the pass has run on both ScreenBuffers, and each pixel's unit has stored a
\* depth of its own
BothUnitsWrote ==
    /\ Idle /\ memo # <<>> /\ todo = <<>>
    /\ kernel.name = "geometry"
    /\ \A px \in Pixels : depth_writes[px] = 1
    /\ memo[2] = depth_buffer
====
